---- MODULE Spec2Model ----
(***************************************************************************)
(* A model of the per-shard storage engine of database.cc: the regular     *)
(* memtable flush pipeline of one column family (apply, seal, sstable      *)
(* write, cache update, ordered post-flush commit-log discard, explicit    *)
(* and memory-driven flush requests), the copy-on-write sstable set with   *)
(* readers and compaction, dirty-memory backpressure on writes, the        *)
(* reconciliation order of atomic cells, and streaming ingest (the shared  *)
(* and the per-plan streaming memtable lists, plan end and plan failure,   *)
(* cache invalidation).                                                    *)
(*                                                                         *)
(* The specifications that share the module:                               *)
(*   Spec        the flush pipeline driven by the memory-driven flusher,   *)
(*               with clear and truncate;                                  *)
(*   SpecFlush   the pipeline with callers of column_family::flush();      *)
(*   SpecRetry   the pipeline with failing writes and cache updates;       *)
(*   SpecSst     the sstable set with readers and compaction;              *)
(*   SpecMem     writes gated by the dirty-memory region groups;           *)
(*   SpecCell    compare_atomic_cell_for_merge on drawn cells;             *)
(*   SpecStream  streaming plans, their flush and their failure;           *)
(*   SpecRequest callers of request_flush on the streaming list;           *)
(*   SpecLists   the three kinds of memtable list side by side;            *)
(*   SpecPopulate the sstables found on disk when the table is opened;     *)
(*   SpecSnapshot snapshots of the table taken on every shard;             *)
(*   SpecApply   database::apply with the commit log and its retry;        *)
(*   SpecRead    readers opened while memtables are flushed;               *)
(*   SpecSys     writes of the system, regular and streaming groups;       *)
(*   SpecStop    column_family::stop and the gates it closes;              *)
(*   SpecFlusher the flusher fiber of the dirty-memory manager;            *)
(*   SpecFilter  the sstables a single-key read keeps for a slice;         *)
(*   SpecPresence the partition presence checker of a cache update;        *)
(*   SpecDelayed delayed seals of the streaming list with clear();         *)
(*   SpecRanges  get_ranges and get_primary_ranges on a token ring;        *)
(*   SpecTransfer a stream transfer task sending from its shards;          *)
(*   SpecSnapshotLive snapshots whose steps are not put off for ever.      *)
(***************************************************************************)
EXTENDS Integers, Sequences, FiniteSets, TLC

\* ------------------------------------------------------------------ bounds
MaxMemtables == 3   \* memtable objects one column family creates in a run
MaxRp        == 2   \* replay positions are 0 (the zero position) .. MaxRp
MaxMutations == 2   \* mutations accepted by apply in a run
MaxFailures  == 1   \* failed sstable writes in a run
MaxCallers   == 2   \* concurrent callers of column_family::flush()
MaxReaders   == 1   \* concurrent sstable readers
MaxSstables  == 3   \* sstables written by flushes and compactions (SpecSst)
MaxCompactions == 1 \* compactions of the column family under way at once
MaxWrites    == 4   \* writes that go through the dirty-memory gate in a run
HardLimit    == 1   \* throttle threshold of the regular region group, in
                    \* units of the memory one write allocates
MaxTimestamp == 2   \* cell timestamps are 1 .. MaxTimestamp
MaxExpiry    == 2   \* expiries of cells with a TTL are 1 .. MaxExpiry
MaxValueLen  == 1   \* cell values are byte strings of at most this length
MaxDeletion  == 1   \* deletion times are -MaxDeletion .. MaxDeletion seconds
MaxPlans     == 1   \* streaming plans that stream into the column family
MaxRanges    == 2   \* partition ranges streamed mutations fall in
MaxStreamMemtables == 4  \* streaming memtable objects created in a run
MaxPopGens   == 2   \* sstable generations found in the directory by populate
MaxShards    == 2   \* smp::count
MaxFiles     == 2   \* sstable file names that snapshots register
MaxDbWrites  == 3      \* database::apply invocations
max_background_work == 20  \* _max_background_work
MaxPosition  == 5      \* replay positions the commit log hands out
MaxKeys      == 2   \* partition keys
MaxCk        == 2   \* values of a component of a clustering key
MaxFilterTs  == 2   \* timestamps of the rows of candidate sstables
MaxCandidates == 2  \* candidate sstables of a single-key read
MaxTokens    == 3   \* tokens a ring is drawn from
MaxEndpoints == 2   \* endpoints of the cluster
MaxTShards   == 2   \* shards a transfer task sends from
MaxSends     == 3   \* STREAM_MUTATION messages one shard sends
MaxInFlight  == 2   \* units of the mutation send limiter of a shard

Max(S) == CHOOSE x \in S : \A y \in S : y <= x
Min(S) == CHOOSE x \in S : \A y \in S : x <= y

MemtableIds == 1..MaxMemtables
Rps         == 0..MaxRp
Generations == 1..Max({MaxMemtables + MaxFailures, MaxSstables})
Callers     == 1..MaxCallers
Requests    == 1..MaxCallers
Readers     == 1..MaxReaders
Compactions == 1..MaxCompactions
Writes      == 1..MaxWrites
Plans       == 1..MaxPlans
Ranges      == 1..MaxRanges
StreamIds   == 1..MaxStreamMemtables
MutIds      == 1..MaxMutations
PopGens     == 1..MaxPopGens
Shards      == 0..(MaxShards - 1)
DbWrites    == 1..MaxDbWrites
FileNames   == 1..MaxFiles

VARIABLES
    \* ---- column family, regular memtables (Spec)
    commitlog,           \* _commitlog != nullptr: the column family has a commit log
    memtables,           \* _memtables: sequence of memtable ids, the last is active
    mt,                  \* memtable objects: id -> [data, rp]
    mtCount,             \* memtable objects created so far
    highest_flushed_rp,  \* _highest_flushed_rp
    flushes,             \* per sealed memtable: its run_cf_flush invocation
    generation,          \* last value of calculate_generation_for_new_table()
    sstData,             \* contents of the sstables written: generation -> mutations
    sstSets,             \* heap of sstable_set objects: object id -> [used, elems]
    sstables,            \* _sstables: the object id the column family points to
    truncated,           \* sstables that discard_sstables took out of the set
    discards,            \* calls of commitlog->discard_completed_segments, in order
    nmut,                \* mutations accepted by apply so far
    live,                \* mutations accepted by apply and not dropped by clear/truncate
    threw,               \* the latest column_family::apply call threw
    crashed,             \* the assertion of seal_active_memtable failed
    \* ---- flush requests (Spec)
    permit,              \* the one unit of _flush_serializer: 0 free, k attached to
                         \* the region of memtable k in the flush manager
    permitWaiters,       \* FIFO of the requests that wait for the permit
    flush_coalescing,    \* _flush_coalescing: 0 empty, r the pending request
    reqs,                \* memtable_list::request_flush invocations
    callers,             \* column_family::flush() invocations
    \* ---- sstable set, readers and compaction (SpecSst)
    readers,             \* sstable readers: the set object each holds (0: closed)
                         \* and the sstables it saw in it when it was created
    compacted_but_not_deleted,  \* _sstables_compacted_but_not_deleted
    compactions,         \* compact_sstables invocations
    undeleted,           \* sstables a compaction took out of the set whose
                         \* atomic delete has not succeeded
    \* ---- dirty-memory backpressure (SpecMem)
    dirty,               \* region group -> memory of the regions it owns
    blocked,             \* region group -> FIFO of its blocked requests
    writes,              \* database writes: where each stands
    \* ---- cell reconciliation (SpecCell)
    left, right, third,  \* the atomic cells handed to the comparison
    cellpc,              \* "off", "drawn", "compared", "merged"
    cmp,                 \* compare_atomic_cell_for_merge(left, right) and (right, left)
    merged,              \* the two ways of reconciling left, right and third
    \* ---- streaming ingest (SpecStream)
    streaming_memtables, \* _streaming_memtables: sequence of streaming memtable ids
    streaming_memtables_big,  \* _streaming_memtables_big: plan -> its entry
    smt,                 \* streaming memtable objects: id -> [data, plan]
    smtCount,            \* streaming memtable objects created so far
    sseal,               \* per sealed streaming memtable: its sstable write
    waiting_streaming_flushes,  \* the flush_streaming_mutations calls that hold the
                         \* shared future of _waiting_streaming_flushes
    delayed_streaming_flush,    \* _delayed_streaming_flush.armed()
    spermit,             \* the flush permit of the streaming dirty memory manager:
                         \* 0 free, k attached to the region of streaming memtable k
    spermitWaiters,      \* FIFO of those that wait for that permit
    scalls,              \* flush_streaming_mutations invocations, per plan
    fcalls,              \* fail_streaming_mutations invocations, per plan
    rcallers,            \* callers of request_flush on the streaming memtable list
    streaming_flush_coalescing, \* _flush_coalescing of the streaming memtable list:
                         \* 0 empty, c the request started by caller c
    cache,               \* _cache: partition range -> the streamed mutations the
                         \* entry was populated with, if there is an entry
    marked,              \* sstables marked for deletion
    mrange,              \* the partition range each streamed mutation falls in
    \* ---- populate at boot (SpecPopulate)
    shard,               \* engine().cpu_id() of the shard that runs populate
    dir,                 \* the sstable files of the directory: <<generation, component>>
    unprobed,            \* files whose probe_file continuation has not run
    verifier,            \* generation -> status recorded by the scan
    scan_failed,         \* a probe_file continuation threw
    ppc,                 \* populate: "off", "scan", "failed", "done"
    removed_partial,     \* generations removed as partial sstables
    ready_for_writes,    \* mark_ready_for_writes() was called
    \* ---- snapshot on all shards (SpecSnapshot)
    nominated,           \* hash(jsondir) % smp::count: the shard that owns the manifest
    snap,                \* column_family::snapshot invocations, per shard
    pending_snapshots,   \* the snapshot_manager of jsondir on the nominated shard
    sealpc,              \* seal_snapshot: "none", "waiting", "writing", "written", "failed"
    manifest_json,       \* the file names seal_snapshot put in its json text
    manifests,           \* the manifests written to jsondir, in order
    \* ---- database writes (SpecApply)
    column_families,     \* the column family's id is in database::_column_families
    cl_position,         \* the last replay position the commit log handed out
    dbw,                 \* database::apply invocations
    \* ---- column_family::stop (SpecStop)
    stop_pc,             \* stop(): "none", "flushing", "removing", then the gate
                         \* whose close() it waits for, "stopped"
    stop_req,            \* the request_flush of the regular list stop() waits for
    closed,              \* the gates on which close() was called
    \* ---- the memory-driven flusher of the regular manager (SpecFlusher)
    flusher_pc,          \* flush_when_needed: "idle" (waits for work), "permit"
                         \* (waits for the flush permit), "stopped" (the loop is
                         \* over, it waits for the units of background work),
                         \* "done"
    db_shutdown_requested,  \* _db_shutdown_requested
    flusher_ahead,       \* the flushes that held a unit of background work when
                         \* flush_when_needed asked for all of them
    inflight_at_shutdown,  \* the flushes in flight when shutdown() was called
    shutdown_done,       \* the future of shutdown() is resolved
    \* ---- filter_sstable_for_reader (SpecFilter)
    candidates,          \* the sstables handed to filter_sstable_for_reader
    slice,               \* slice.get_all_ranges(): the requested clustering ranges
    surviving,           \* the sstables filter_sstable_for_reader returned
    filter_pc,           \* "off", "candidates", "filtered"
    \* ---- the partition presence checker of update_cache (SpecPresence)
    presence,            \* the last call of a presence checker and its answer
    \* ---- the ranges of an endpoint (SpecRanges)
    sorted_tokens,       \* _token_metadata.sorted_tokens()
    ranges_call,         \* the running get_ranges or get_primary_ranges call
    ret,                 \* its vector ret
    \* ---- a stream transfer task (SpecTransfer)
    transfer,            \* stream_transfer_task::start and what it has called
    send_infos,          \* _send_infos: shard -> its send_info and send loop
    inflight,            \* shard -> STREAM_MUTATION messages sent and not answered
    limiter              \* shard -> units of mutation_send_limiter() available

cfVars  == <<commitlog, memtables, mt, mtCount, highest_flushed_rp,
             flushes, generation, sstData, discards, nmut, live, threw, crashed>>
setVars == <<sstSets, sstables, truncated, readers>>
reqVars == <<permit, permitWaiters, flush_coalescing, reqs, callers>>
sstVars == <<compacted_but_not_deleted, compactions, undeleted>>
memVars == <<dirty, blocked, writes>>
cellVars == <<left, right, third, cellpc, cmp, merged>>
listVars == <<streaming_memtables, streaming_memtables_big, smt, smtCount>>
sealVars == <<sseal, waiting_streaming_flushes, delayed_streaming_flush, spermit,
              spermitWaiters>>
callVars == <<scalls, fcalls, rcallers, streaming_flush_coalescing>>
strVars == <<listVars, sealVars, callVars, cache, marked, mrange>>
popVars == <<shard, dir, unprobed, verifier, scan_failed, ppc, removed_partial,
             ready_for_writes>>
snapVars == <<nominated, snap, pending_snapshots, sealpc, manifest_json, manifests>>
dbVars == <<column_families, cl_position, dbw>>
stopVars == <<stop_pc, stop_req, closed>>
flusherVars == <<flusher_pc, db_shutdown_requested, flusher_ahead, inflight_at_shutdown,
                 shutdown_done>>
filterVars == <<candidates, slice, surviving, filter_pc>>
presenceVars == <<presence>>
ringVars == <<sorted_tokens, ranges_call, ret>>
transferVars == <<transfer, send_infos, inflight, limiter>>
moreVars == <<filterVars, presenceVars, ringVars, transferVars>>
extVars == <<popVars, snapVars, dbVars, stopVars, flusherVars, moreVars>>
coreVars == <<cfVars, setVars, reqVars, sstVars, memVars, cellVars, strVars>>
\* What the actions of each part leave alone of the other parts.
offPop  == <<coreVars, snapVars, dbVars, stopVars, flusherVars, moreVars>>
offSnap == <<coreVars, popVars, dbVars, stopVars, flusherVars, moreVars>>
offDb   == <<setVars, reqVars, sstVars, memVars, cellVars, strVars, popVars, snapVars,
             stopVars, flusherVars, moreVars>>
offStop == <<cfVars, setVars, sstVars, memVars, cellVars, strVars, popVars, snapVars,
             dbVars, flusherVars, moreVars>>
offFlusher == <<setVars, sstVars, memVars, cellVars, popVars, snapVars, dbVars, stopVars,
                moreVars>>
offFilter == <<popVars, snapVars, dbVars, stopVars, flusherVars, presenceVars, ringVars,
               transferVars>>
offRing == <<coreVars, popVars, snapVars, dbVars, stopVars, flusherVars, filterVars,
             presenceVars, transferVars>>
offTransfer == <<coreVars, popVars, snapVars, dbVars, stopVars, flusherVars, filterVars,
                 presenceVars, ringVars>>
vars    == <<cfVars, setVars, reqVars, sstVars, memVars, cellVars, strVars, extVars>>

\* ------------------------------------------------------------------ helpers
Range(s) == {s[i] : i \in DOMAIN s}
RemoveElem(s, e) == SelectSeq(s, LAMBDA x : x # e)

\* db::replay_position(): the zero position.
ZeroRp == 0

\* memtable_list::back() / active_memtable(): the last memtable of the list.
back == memtables[Len(memtables)]

\* memtable::empty()
empty(k) == mt[k].data = {}

\* memtable::apply(m, rp): the partition data grows and the memtable records
\* the highest replay position of any mutation it holds.
memtable_apply(k, m, rp) ==
    [mt EXCEPT ![k] = [data |-> @.data \cup {m},
                       rp   |-> IF @.rp < rp THEN rp ELSE @.rp]]

\* memtable_list::erase(element): the element leaves the list.
erase(list, k) == RemoveElem(list, k)

\* ------------------------------------------------------------ sstable set
ObjIds == 1..(MaxReaders + 2)

FreeObj == [used |-> FALSE, elems |-> {}]

NoReader == [ref |-> 0, seen |-> {}]

\* The sstables of the set the column family currently points to.
CurrentSstables == sstSets[sstables].elems

\* Union of the contents of a set of sstables.
DataOf(S) == UNION {sstData[g] : g \in S}

\* make_lw_shared: the new object is younger than every object alive;
\* object ids stand for the age of the objects.
NewObjId == sstables + 1

\* The position of object o among the objects alive, by age.
Rank(alive, o) == Cardinality({x \in alive : x <= o})

\* Readers are interchangeable: they are kept in the order of the age of
\* the object they hold, closed ones last.
ReaderKey(rec) == IF rec.ref = 0 THEN MaxReaders + 3 ELSE rec.ref

SortReaders(rd) ==
    LET f == CHOOSE f \in [Readers -> Readers] :
                 /\ \A i \in Readers : \E j \in Readers : f[j] = i
                 /\ \A i, j \in Readers :
                        i < j => ReaderKey(rd[f[i]]) <= ReaderKey(rd[f[j]])
    IN  [i \in Readers |-> rd[f[i]]]

\* lw_shared_ptr: after _sstables was pointed to ptr and the readers hold
\* rd, an object nobody refers to is destroyed; the objects that stay are
\* renumbered by age.
Settle(ptr, heap, rd) ==
    LET alive == {ptr} \cup ({rd[r].ref : r \in Readers} \ {0})
    IN  /\ sstables' = Rank(alive, ptr)
        /\ sstSets' = [n \in ObjIds |->
                          IF \E o \in alive : Rank(alive, o) = n
                          THEN heap[CHOOSE o \in alive : Rank(alive, o) = n]
                          ELSE FreeObj]
        /\ readers' = SortReaders([r \in Readers |->
                          IF rd[r].ref = 0 THEN rd[r]
                          ELSE [rd[r] EXCEPT !.ref = Rank(alive, @)]])

\* _sstables is pointed to a new set object holding elems.
publish(elems) ==
    Settle(NewObjId,
           [sstSets EXCEPT ![NewObjId] = [used |-> TRUE, elems |-> elems]],
           readers)

\* add_sstable that inserts into the set object _sstables points to.
add_sstable_in_place(g) ==
    [ptr  |-> sstables,
     heap |-> [sstSets EXCEPT ![sstables].elems = @ \cup {g}]]

\* column_family::add_sstable: _sstables is pointed to a copy of the set
\* object and the sstable is inserted into the copy.
add_sstable_copy(g) ==
    [ptr  |-> NewObjId,
     heap |-> [sstSets EXCEPT ![NewObjId] = [used  |-> TRUE,
                                             elems |-> CurrentSstables \cup {g}]]]

add_sstable(g) ==
    LET res == add_sstable_copy(g)
    IN  /\ Settle(res.ptr, res.heap, readers)
        /\ truncated' = truncated

\* ------------------------------------------------------------ flush queue
\* utils::flush_queue keyed by replay position. An entry is pending from
\* run_with_ordered_post_op until its post callback has finished.
Pending == {k \in MemtableIds : flushes[k].pc \in {"writing", "sleeping", "cache", "flushed"}}

\* flush_queue::empty()
queue_empty == Pending = {}

\* flush_queue::highest_key()
highest_key == Max({flushes[k].key : k \in Pending})

\* run_cf_flush that adopts the highest key whenever the queue is non-empty,
\* also for a non-zero position.
run_cf_flush_key_always_adopts(rp) ==
    IF ~queue_empty THEN highest_key ELSE rp

\* run_cf_flush: the key the work is queued under.
run_cf_flush_key(rp) ==
    IF rp = ZeroRp /\ ~queue_empty THEN highest_key ELSE rp

\* run_with_ordered_post_op: the post of an entry runs once its work is
\* done and the posts of all entries with a lower key have finished.
post_may_run(k) ==
    /\ flushes[k].pc = "flushed"
    /\ \A j \in Pending : flushes[j].key >= flushes[k].key

\* The work of k is done while an entry with a lower key is still pending:
\* run_with_ordered_post_op holds the post of k back.
post_held(k) == \E j \in Pending \ {k} : flushes[j].key < flushes[k].key

\* ------------------------------------------------------------------- Init
NoFlush == [pc |-> "none", key |-> 0, gen |-> 0, held |-> FALSE, cache_failed |-> FALSE]
NoReq   == [pc |-> "none", mt |-> 0]
NoCompaction == [pc |-> "idle", input |-> {}]
NoWrite == [pc |-> "none", kind |-> "none", above |-> FALSE, relieved |-> FALSE]

\* A cell record: a live cell has a value and, with a TTL, an expiry; a
\* deleted cell has a deletion time.
NoCell   == [timestamp |-> 0, live |-> FALSE, value |-> <<>>, has_ttl |-> FALSE,
             expiry |-> 0, deletion_time |-> 0]
NoCmp    == [lr |-> 0, rl |-> 0]
NoMerged == [l |-> NoCell, r |-> NoCell]

\* The region groups of the dirty memory managers writes are gated by.
Groups  == {"system", "regular", "streaming"}
NoCall  == [pc |-> "idle", desired_rp |-> 0, req |-> 0, waitKey |-> 0,
            seen |-> 0, seenRp |-> 0]

\* The storage engine of one column family after construction.
InitStorage ==
    /\ commitlog = TRUE
    /\ memtables = <<1>>
    /\ mt = [k \in MemtableIds |-> [data |-> {}, rp |-> ZeroRp]]
    /\ mtCount = 1
    /\ highest_flushed_rp = ZeroRp
    /\ flushes = [k \in MemtableIds |-> NoFlush]
    /\ generation = 0
    /\ sstData = [g \in Generations |-> {}]
    /\ sstSets = [o \in ObjIds |-> IF o = 1 THEN [used |-> TRUE, elems |-> {}] ELSE FreeObj]
    /\ sstables = 1
    /\ truncated = {}
    /\ discards = <<>>
    /\ nmut = 0
    /\ live = {}
    /\ threw = FALSE
    /\ crashed = FALSE
    /\ permit = 0
    /\ permitWaiters = <<>>
    /\ flush_coalescing = 0
    /\ reqs = [r \in Requests |-> NoReq]
    /\ callers = [c \in Callers |-> NoCall]
    /\ readers = [r \in Readers |-> NoReader]
    /\ compacted_but_not_deleted = {}
    /\ compactions = [j \in Compactions |-> NoCompaction]
    /\ undeleted = {}
    /\ dirty = [g \in Groups |-> 0]
    /\ blocked = [g \in Groups |-> <<>>]
    /\ writes = [w \in Writes |-> NoWrite]

\* A streaming memtable object: what it holds and the plan whose list it
\* was made for (0: the shared list _streaming_memtables).
NoSmt   == [data |-> {}, plan |-> 0]
\* The sstable write of a sealed streaming memtable. waiters: the calls whose
\* shared future this seal resolves; dangling: the entry the write refers to
\* was destroyed.
NoSeal  == [pc |-> "none", gen |-> 0, waiters |-> {}, dangling |-> FALSE]
\* streaming_memtable_big: state is "none" (never made), "mapped" (in
\* _streaming_memtables_big), "erased" (out of the map, held by the
\* continuation that erased it) or "gone" (destroyed); closed is
\* flush_in_progress.close() having been called.
NoBig   == [state |-> "none", memtables |-> <<>>, sstables |-> {}, closed |-> FALSE]
NoSCall == [pc |-> "idle", ranges |-> {}, pre |-> {}, await |-> {}, seal |-> 0,
            failed |-> FALSE]
NoRCaller == [pc |-> "idle", first |-> 0, seal |-> 0]
NoEntry == [present |-> FALSE, data |-> {}]

\* The streaming side of the column family after construction.
InitStreaming ==
    /\ streaming_memtables = <<1>>
    /\ streaming_memtables_big = [p \in Plans |-> NoBig]
    /\ smt = [k \in StreamIds |-> NoSmt]
    /\ smtCount = 1
    /\ sseal = [k \in StreamIds |-> NoSeal]
    /\ waiting_streaming_flushes = {}
    /\ delayed_streaming_flush = FALSE
    /\ spermit = 0
    /\ spermitWaiters = <<>>
    /\ scalls = [p \in Plans |-> NoSCall]
    /\ fcalls = [p \in Plans |-> "idle"]
    /\ rcallers = [c \in Callers |-> NoRCaller]
    /\ streaming_flush_coalescing = 0
    /\ cache = [R \in Ranges |-> NoEntry]
    /\ marked = {}
    /\ mrange = [m \in MutIds |-> 0]

\* No cell comparison is under way.
InitNoCells ==
    /\ left = NoCell /\ right = NoCell /\ third = NoCell
    /\ cellpc = "off"
    /\ cmp = NoCmp
    /\ merged = NoMerged

\* No populate is under way.
InitNoPopulate ==
    /\ shard = 0
    /\ dir = {}
    /\ unprobed = {}
    /\ verifier = [g \in PopGens |-> "none"]
    /\ scan_failed = FALSE
    /\ ppc = "off"
    /\ removed_partial = {}
    /\ ready_for_writes = FALSE

\* snapshot_manager(): no files, both semaphores at 0.
NoManager == [exists |-> FALSE, files |-> {}, requests |-> 0, manifest_write |-> 0]
NoSnap    == [pc |-> "idle", files |-> {}, link_failed |-> FALSE]

\* No snapshot has been asked for.
InitNoSnapshot ==
    /\ nominated = 0
    /\ snap = [s \in Shards |-> NoSnap]
    /\ pending_snapshots = NoManager
    /\ sealpc = "none"
    /\ manifest_json = {}
    /\ manifests = <<>>

\* A database::apply invocation: where it stands, the replay position the
\* commit log gave it, how often it was appended, whether the write was
\* logged and dropped, and the exception it ended with.
NoDbWrite == [pc |-> "idle", rp |-> 0, appends |-> 0, logged |-> FALSE, error |-> "none"]

\* The column family is in the database, and no write was issued.
InitDatabase ==
    /\ column_families = TRUE
    /\ cl_position = 0
    /\ dbw = [w \in DbWrites |-> NoDbWrite]

\* stop() has not been called and every gate is open.
InitRunning ==
    /\ stop_pc = "none"
    /\ stop_req = 0
    /\ closed = [flush_queue |-> FALSE, streaming_flush_gate |-> FALSE,
                 sstable_deletion_gate |-> FALSE]

\* The flusher waits for work and shutdown has not been requested.
InitFlusher ==
    /\ flusher_pc = "idle"
    /\ db_shutdown_requested = FALSE
    /\ flusher_ahead = {}
    /\ inflight_at_shutdown = {}
    /\ shutdown_done = FALSE

\* No read is being filtered.
InitNoFilter ==
    /\ candidates = <<>>
    /\ slice = <<>>
    /\ surviving = {}
    /\ filter_pc = "off"

\* No presence checker has been called.
NoPresence == [mt |-> 0, key |-> 0, answer |-> "none"]

\* No get_ranges call is running.
NoRangesCall == [pc |-> "idle", ep |-> 1, primary |-> FALSE, idx |-> 1,
                 prev_tok |-> 1, owned |-> {}]

InitNoRanges ==
    /\ sorted_tokens = <<>>
    /\ ranges_call = NoRangesCall
    /\ ret = <<>>

TShards == 1..MaxTShards

\* A send_info that has not been made. state is "none", "live" or "freed";
\* loop is the position of send_mutations; done and broken are the
\* semaphore mutations_done.
NoSendInfo == [state |-> "none", loop |-> "off", mutations_nr |-> 0, done |-> 0,
               broken |-> FALSE, error_logged |-> FALSE]

\* The task has not been started.
NoTransfer == [pc |-> "idle", shard |-> 1, completed |-> 0, on_error |-> 0,
               send_failed |-> FALSE, done_failed |-> FALSE, crashed |-> FALSE]

InitNoTransfer ==
    /\ transfer = NoTransfer
    /\ send_infos = [s \in TShards |-> NoSendInfo]
    /\ inflight = [s \in TShards |-> 0]
    /\ limiter = [s \in TShards |-> MaxInFlight]

InitMore == InitNoFilter /\ presence = NoPresence /\ InitNoRanges /\ InitNoTransfer

InitExt == InitNoPopulate /\ InitNoSnapshot /\ InitDatabase /\ InitRunning /\ InitFlusher
               /\ InitMore

Init == InitStorage /\ InitNoCells /\ InitStreaming /\ InitExt

\* ------------------------------------------------------------ write path
\* check_valid_rp that accepts every replay position.
check_valid_rp_accepts_all(rp) == TRUE

\* column_family::check_valid_rp: TRUE when it returns, FALSE when it throws
\* replay_position_reordered_exception.
check_valid_rp(rp) == ~(rp < highest_flushed_rp)

\* column_family::apply(const frozen_mutation&, const schema_ptr&, rp)
Apply(rp) ==
    /\ ~crashed
    /\ UNCHANGED <<sstVars, memVars, cellVars, strVars, extVars>>
    /\ nmut < MaxMutations
    /\ IF check_valid_rp(rp)
       THEN /\ mt' = memtable_apply(back, nmut + 1, rp)
            /\ nmut' = nmut + 1
            /\ live' = live \cup {nmut + 1}
            /\ threw' = FALSE
       ELSE /\ threw' = TRUE
            /\ UNCHANGED <<mt, nmut, live>>
    /\ UNCHANGED <<commitlog, memtables, mtCount, highest_flushed_rp,
                   flushes, generation, sstData, discards, crashed, setVars, reqVars>>

\* column_family::apply(const mutation&, rp): the overload that does not
\* validate the replay position.
ApplyMutation(rp) ==
    /\ ~crashed
    /\ UNCHANGED <<sstVars, memVars, cellVars, strVars, extVars>>
    /\ nmut < MaxMutations
    /\ mt' = memtable_apply(back, nmut + 1, rp)
    /\ nmut' = nmut + 1
    /\ live' = live \cup {nmut + 1}
    /\ UNCHANGED <<commitlog, memtables, mtCount, highest_flushed_rp,
                   flushes, generation, sstData, discards, threw, crashed,
                   setVars, reqVars>>

\* ------------------------------------------------------------ flush path
\* seal_active_memtable without its assertion.
seal_assertion_absent(rp) == TRUE

\* The assertion of seal_active_memtable on the sealed memtable's position.
seal_assertion(rp) ==
    \/ highest_flushed_rp < rp
    \/ (highest_flushed_rp = ZeroRp /\ rp = ZeroRp)

\* A flush loop that does not ask the flush queue whether it is open.
check_open_gate_absent == TRUE

\* flush_queue::check_open_gate(): TRUE when it returns, FALSE when it
\* throws because close() was called on the queue.
check_open_gate == ~closed.flush_queue

\* A seal_active_memtable that queues the flush of the active memtable
\* without adding a new active memtable to the list.
seal_active_memtable_without_new(old) ==
    /\ mtCount < MaxMemtables
    /\ UNCHANGED <<memtables, mtCount>>
    /\ IF seal_assertion(mt[old].rp)
       THEN /\ highest_flushed_rp' = mt[old].rp
            /\ generation' = generation + 1
            /\ flushes' = [flushes EXCEPT ![old] =
                              [pc  |-> "writing",
                               key |-> run_cf_flush_key(mt[old].rp),
                               gen |-> generation + 1,
                               held |-> FALSE,
                               cache_failed |-> FALSE]]
            /\ crashed' = FALSE
       ELSE /\ crashed' = TRUE
            /\ UNCHANGED <<highest_flushed_rp, generation, flushes>>

\* column_family::seal_active_memtable for a non-empty active memtable: a
\* new active memtable is pushed, the assertion is checked, the position is
\* recorded and the flush is queued; its first sstable write starts at once,
\* unless check_open_gate throws, which fails the flush.
seal_active_memtable(old) ==
    /\ mtCount < MaxMemtables
    /\ memtables' = Append(memtables, mtCount + 1)
    /\ mtCount' = mtCount + 1
    /\ IF seal_assertion(mt[old].rp)
       THEN /\ highest_flushed_rp' = mt[old].rp
            /\ generation' = IF check_open_gate THEN generation + 1 ELSE generation
            /\ flushes' = [flushes EXCEPT ![old] =
                              [pc  |-> IF check_open_gate THEN "writing" ELSE "failed",
                               key |-> run_cf_flush_key(mt[old].rp),
                               gen |-> IF check_open_gate THEN generation + 1 ELSE 0,
                               held |-> FALSE,
                               cache_failed |-> FALSE]]
            /\ crashed' = FALSE
       ELSE /\ crashed' = TRUE
            /\ UNCHANGED <<highest_flushed_rp, generation, flushes>>

\* dirty_memory_manager::flush_one(mtlist, permit), called for request r
\* (0: called by the reactive flusher).
flush_one(r) ==
    IF empty(back)
    THEN /\ reqs' = [q \in Requests |-> IF q = r THEN [pc |-> "ok", mt |-> 0] ELSE reqs[q]]
         /\ permit' = 0
         /\ UNCHANGED <<memtables, mtCount, highest_flushed_rp, generation, flushes, crashed>>
    ELSE /\ permit' = IF check_open_gate THEN back ELSE 0
         /\ seal_active_memtable(back)
         /\ reqs' = [q \in Requests |->
                        IF q = r
                        THEN [pc |-> IF check_open_gate THEN "sealed" ELSE "failed",
                              mt |-> back]
                        ELSE reqs[q]]

\* Failed sstable writes so far: every write attempt takes a generation.
FailedWrites ==
    generation - Cardinality({k \in MemtableIds : flushes[k].pc \notin {"none", "failed"}})
               + Cardinality({k \in MemtableIds : flushes[k].pc = "sleeping"})
               - Cardinality({k \in StreamIds : sseal[k].gen # 0})

\* try_flush_memtable_to_sstable that ends the repeat loop also when the
\* write failed.
try_flush_memtable_to_sstable_no_retry(ok) ==
    [pc |-> "cache", add |-> ok]

\* try_flush_memtable_to_sstable that does not add the written sstable to
\* the set.
try_flush_memtable_to_sstable_no_add(ok) ==
    IF ok THEN [pc |-> "cache", add |-> FALSE]
          ELSE [pc |-> "sleeping", add |-> FALSE]

\* try_flush_memtable_to_sstable, the continuation of write_components and
\* open_data: where the flush goes next and whether the sstable is added.
try_flush_memtable_to_sstable(ok) ==
    IF ok THEN [pc |-> "cache", add |-> TRUE]
          ELSE [pc |-> "sleeping", add |-> FALSE]

\* The sstable write of sealed memtable k ends (ok or with an exception).
WriteDone(k, ok) ==
    /\ ~crashed
    /\ UNCHANGED <<sstVars, memVars, cellVars, strVars, extVars>>
    /\ flushes[k].pc = "writing"
    /\ ~ok => FailedWrites < MaxFailures
    /\ permit' = IF permit = k THEN 0 ELSE permit
    /\ LET res == try_flush_memtable_to_sstable(ok)
           g   == flushes[k].gen
       IN  /\ flushes' = [flushes EXCEPT ![k].pc = res.pc]
           /\ IF res.add
              THEN /\ add_sstable(g)
                   /\ sstData' = [sstData EXCEPT ![g] = mt[k].data]
              ELSE UNCHANGED <<setVars, sstData>>
    /\ UNCHANGED <<commitlog, memtables, mt, mtCount, highest_flushed_rp,
                   generation, discards, nmut, live, threw, crashed,
                   permitWaiters, flush_coalescing, reqs, callers>>

\* After the 10 s sleep the repeat loop goes round again: check_open_gate,
\* then try_flush_memtable_to_sstable with a new generation. When
\* check_open_gate throws the flush fails: its entry leaves the queue
\* without its post callback, and what waited for it gets the exception.
Retry(k) ==
    /\ ~crashed
    /\ UNCHANGED <<sstVars, memVars, cellVars, strVars, extVars>>
    /\ flushes[k].pc = "sleeping"
    /\ IF check_open_gate
       THEN /\ generation' = generation + 1
            /\ flushes' = [flushes EXCEPT ![k].pc = "writing", ![k].gen = generation + 1]
            /\ UNCHANGED <<reqs, callers>>
       ELSE /\ flushes' = [flushes EXCEPT ![k].pc = "failed"]
            /\ reqs' = [r \in Requests |->
                           IF reqs[r].pc = "sealed" /\ reqs[r].mt = k
                           THEN [reqs[r] EXCEPT !.pc = "failed"]
                           ELSE reqs[r]]
            /\ LET key    == flushes[k].key
                   erased == \A j \in Pending \ {k} : flushes[j].key # key
               IN  callers' = [c \in Callers |->
                        IF callers[c].pc = "pending" /\ callers[c].waitKey = key /\ erased
                        THEN [callers[c] EXCEPT !.pc = "done", !.waitKey = 0]
                        ELSE callers[c]]
            /\ UNCHANGED generation
    /\ UNCHANGED <<commitlog, memtables, mt, mtCount, highest_flushed_rp,
                   sstData, discards, nmut, live, threw, crashed,
                   setVars, permit, permitWaiters, flush_coalescing>>

\* A continuation of update_cache that treats a failed cache update like a
\* failed write: the memtable stays and the loop goes round again.
update_cache_continuation_retries(ok) ==
    IF ok THEN [pc |-> "flushed", erase |-> TRUE]
          ELSE [pc |-> "sleeping", erase |-> FALSE]

\* try_flush_memtable_to_sstable, the continuation of update_cache: an
\* exception is logged, and either way the memtable is erased from the list
\* and the repeat loop ends.
update_cache_continuation(ok) ==
    [pc |-> "flushed", erase |-> TRUE]

\* update_cache ends (ok or with an exception, which is logged): the sealed
\* memtable leaves the list and the work of the flush is done.
CacheDone(k, ok) ==
    /\ ~crashed
    /\ UNCHANGED <<sstVars, memVars, cellVars, strVars, extVars>>
    /\ flushes[k].pc = "cache"
    /\ LET res == update_cache_continuation(ok)
       IN  /\ memtables' = IF res.erase THEN erase(memtables, k) ELSE memtables
           /\ flushes' = [flushes EXCEPT ![k].pc = res.pc,
                                         ![k].held = post_held(k),
                                         ![k].cache_failed = ~ok]
    /\ UNCHANGED <<commitlog, mt, mtCount, highest_flushed_rp, generation,
                   sstData, discards, nmut, live, threw, crashed,
                   setVars, reqVars>>

\* A post callback that hands over the column family's highest flushed
\* position instead of the memtable's own.
post_discard_rp_highest(k) == highest_flushed_rp

\* The replay position the post callback hands to the commit log.
post_discard_rp(k) == mt[k].rp

\* The post callback of the flush of memtable k runs: the commit log is told
\* to discard, the queue entry is released, and what waited on it resumes.
Post(k) ==
    /\ ~crashed
    /\ UNCHANGED <<sstVars, memVars, cellVars, strVars, extVars>>
    /\ post_may_run(k)
    /\ discards' = IF commitlog
                   THEN Append(discards, [mt |-> k, rp |-> post_discard_rp(k)])
                   ELSE discards
    /\ flushes' = [flushes EXCEPT ![k].pc = "done"]
    /\ LET key    == flushes[k].key
           erased == \A j \in Pending \ {k} : flushes[j].key # key
       IN  callers' = [c \in Callers |->
                IF callers[c].pc = "pending" /\ callers[c].waitKey = key /\ erased
                THEN [callers[c] EXCEPT !.pc = "done", !.waitKey = 0]
                ELSE callers[c]]
    /\ reqs' = [r \in Requests |->
                IF reqs[r].pc = "sealed" /\ reqs[r].mt = k
                THEN [reqs[r] EXCEPT !.pc = "ok"]
                ELSE reqs[r]]
    /\ permit' = IF permit = k THEN 0 ELSE permit
    /\ UNCHANGED <<commitlog, memtables, mt, mtCount, highest_flushed_rp,
                   generation, sstData, nmut, live, threw, crashed,
                   setVars, permitWaiters, flush_coalescing>>

\* -------------------------------------------------------- flush requests
\* column_family::flush() that takes the active memtable's position also
\* when the active memtable is empty.
flush_desired_rp_of_active == mt[back].rp

\* column_family::flush(): the replay position the caller will wait for.
flush_desired_rp ==
    IF empty(back) THEN highest_flushed_rp ELSE mt[back].rp

\* memtable_list::request_flush: the request the caller is served by, a new
\* one when none is pending.
NewRequest == Min({r \in Requests : reqs[r].pc = "none"})

\* The highest replay position of any mutation applied so far: every
\* mutation is in a memtable object, which records its highest position.
HighestAppliedRp == Max({mt[k].rp : k \in 1..mtCount})

\* column_family::flush() is called: request_flush either starts a request,
\* which queues for the flush permit, or joins the pending one. The caller
\* remembers what had been applied when it called (seen, seenRp).
FlushCall(c) ==
    /\ ~crashed
    /\ UNCHANGED <<sstVars, memVars, cellVars, strVars, extVars>>
    /\ callers[c].pc = "idle"
    /\ \A b \in Callers : b < c => callers[b].pc # "idle"
    /\ LET r == IF flush_coalescing = 0 THEN NewRequest ELSE flush_coalescing
       IN  /\ callers' = [callers EXCEPT ![c] =
                  [pc |-> "req", desired_rp |-> flush_desired_rp, req |-> r,
                   waitKey |-> 0, seen |-> nmut, seenRp |-> HighestAppliedRp]]
           /\ IF flush_coalescing = 0
              THEN /\ flush_coalescing' = r
                   /\ reqs' = [reqs EXCEPT ![r] = [pc |-> "permit", mt |-> 0]]
                   /\ permitWaiters' = Append(permitWaiters, r)
              ELSE UNCHANGED <<flush_coalescing, reqs, permitWaiters>>
    /\ UNCHANGED <<cfVars, setVars, permit>>

\* The request at the head of the permit queue gets the permit: the
\* coalescing promise is taken and flush_one runs.
RequestGranted ==
    /\ ~crashed
    /\ UNCHANGED <<sstVars, memVars, cellVars, strVars, extVars>>
    /\ permit = 0
    /\ permitWaiters # <<>>
    /\ permitWaiters' = Tail(permitWaiters)
    /\ flush_coalescing' = 0
    /\ flush_one(Head(permitWaiters))
    /\ UNCHANGED <<commitlog, mt, sstData, discards, nmut, live, threw, setVars, callers>>

\* flush_when_needed, the group over its soft limit: the reactive flusher
\* gets the permit, finds no explicit flusher waiting for it (else it gives
\* way and changes nothing) and calls flush_one on the list that owns the
\* largest region, without waiting for it.
ReactiveFlush ==
    /\ ~crashed
    /\ UNCHANGED <<sstVars, memVars, cellVars, strVars, extVars>>
    /\ permit = 0
    /\ permitWaiters = <<>>
    /\ flush_one(0)
    /\ UNCHANGED <<commitlog, mt, sstData, discards, nmut, live, threw,
                   setVars, permitWaiters, flush_coalescing, callers>>

\* flush_queue::wait_for_pending(rp): the key whose release the caller
\* waits for, the highest queued key not above rp (-1: nothing to wait for).
wait_for_pending_key(rp) ==
    LET keys == {flushes[k].key : k \in {j \in Pending : flushes[j].key <= rp}}
    IN  IF keys = {} THEN -1 ELSE Max(keys)

\* column_family::flush(), the continuation of request_flush: wait for all
\* queued flushes up to the desired replay position.
FlushResume(c) ==
    /\ ~crashed
    /\ UNCHANGED <<sstVars, memVars, cellVars, strVars, extVars>>
    /\ callers[c].pc = "req"
    /\ reqs[callers[c].req].pc \in {"ok", "failed"}
    /\ LET key == wait_for_pending_key(callers[c].desired_rp)
       IN  callers' = [callers EXCEPT ![c].pc = IF key = -1 THEN "done" ELSE "pending",
                                      ![c].waitKey = IF key = -1 THEN 0 ELSE key,
                                      ![c].req = 0,
                                      ![c].desired_rp = 0]
    /\ UNCHANGED <<cfVars, setVars, permit, permitWaiters, flush_coalescing, reqs>>

\* --------------------------------------------------------- streaming ingest
\* What the streaming actions leave alone of the regular pipeline.
cfRest == <<commitlog, memtables, mt, mtCount, highest_flushed_rp, flushes,
            discards, live, threw>>
offStream == <<reqVars, sstVars, memVars, cellVars, extVars>>

\* _streaming_memtables->back(): the active streaming memtable.
sback == streaming_memtables[Len(streaming_memtables)]

\* smb.memtables->back(): the active memtable of the list of plan p.
bback(p) == streaming_memtables_big[p].memtables[Len(streaming_memtables_big[p].memtables)]

\* memtable::empty() of a streaming memtable.
sempty(k) == smt[k].data = {}

\* The immediate seals of the shared list that hold a guard of
\* _streaming_flush_phaser.
InProgressSeals == {k \in StreamIds : sseal[k].pc = "writing" /\ smt[k].plan = 0}

\* A flush_in_progress gate whose close() does not wait for the seals
\* inside it.
flush_in_progress_not_awaited(p) == {}

\* The seals of the list of plan p that are inside smb.flush_in_progress.
InProgressBig(p) ==
    {k \in StreamIds : sseal[k].pc = "writing" /\ smt[k].plan = p /\ ~sseal[k].dangling}

\* Failed sstable writes of streaming memtables so far.
FailedStreamWrites == Cardinality({k \in StreamIds : sseal[k].pc = "failed"})

\* An immediate seal that leaves the sealed memtable in _streaming_memtables.
seal_active_streaming_memtable_immediate_keeps(old) ==
    /\ smtCount < MaxStreamMemtables
    /\ generation + 1 \in Generations
    /\ streaming_memtables' = Append(streaming_memtables, smtCount + 1)
    /\ smtCount' = smtCount + 1
    /\ delayed_streaming_flush' = FALSE
    /\ generation' = generation + 1
    /\ sseal' = [sseal EXCEPT ![old] = [pc |-> "writing", gen |-> generation + 1,
                                        waiters |-> waiting_streaming_flushes,
                                        dangling |-> FALSE]]
    /\ waiting_streaming_flushes' = {}

\* column_family::seal_active_streaming_memtable_immediate for a non-empty
\* active memtable old: a new active memtable is added and old leaves the
\* list, the timer is cancelled, the waiters collected so far become the
\* waiters of this seal, and the sstable write starts.
seal_active_streaming_memtable_immediate(old) ==
    /\ smtCount < MaxStreamMemtables
    /\ generation + 1 \in Generations
    /\ streaming_memtables' = erase(Append(streaming_memtables, smtCount + 1), old)
    /\ smtCount' = smtCount + 1
    /\ delayed_streaming_flush' = FALSE
    /\ generation' = generation + 1
    /\ sseal' = [sseal EXCEPT ![old] = [pc |-> "writing", gen |-> generation + 1,
                                        waiters |-> waiting_streaming_flushes,
                                        dangling |-> FALSE]]
    /\ waiting_streaming_flushes' = {}

\* column_family::seal_active_streaming_memtable_big for a non-empty active
\* memtable old of plan p: a new active memtable is added and old leaves the
\* list; with flush_in_progress closed the seal fails at the gate, else the
\* sstable write starts.
seal_active_streaming_memtable_big(p, old) ==
    /\ smtCount < MaxStreamMemtables
    /\ generation + 1 \in Generations
    /\ smtCount' = smtCount + 1
    /\ smt' = [smt EXCEPT ![smtCount + 1] = [data |-> {}, plan |-> p]]
    /\ streaming_memtables_big' = [streaming_memtables_big EXCEPT ![p].memtables =
                                      erase(Append(@, smtCount + 1), old)]
    /\ IF streaming_memtables_big[p].closed
       THEN /\ sseal' = [sseal EXCEPT ![old].pc = "refused"]
            /\ UNCHANGED generation
       ELSE /\ generation' = generation + 1
            /\ sseal' = [sseal EXCEPT ![old] = [pc |-> "writing", gen |-> generation + 1,
                                                waiters |-> {}, dangling |-> FALSE]]

\* column_family::apply_streaming_mutation(schema, plan_id, m, fragmented)
\* while plan p is under way: a fragmented mutation goes to the active
\* memtable of the plan's entry, which is made on demand, any other to the
\* active memtable of the shared list. R is the range the mutation falls in.
StreamApply(p, R, fragmented) ==
    /\ ~crashed
    /\ nmut < MaxMutations
    /\ scalls[p].pc = "idle" /\ fcalls[p] = "idle"
    /\ nmut' = nmut + 1
    /\ mrange' = [mrange EXCEPT ![nmut + 1] = R]
    /\ IF ~fragmented
       THEN /\ smt' = [smt EXCEPT ![sback].data = @ \cup {nmut + 1}]
            /\ UNCHANGED <<streaming_memtables_big, smtCount>>
       ELSE IF streaming_memtables_big[p].state = "mapped"
       THEN /\ smt' = [smt EXCEPT ![bback(p)].data = @ \cup {nmut + 1}]
            /\ UNCHANGED <<streaming_memtables_big, smtCount>>
       ELSE /\ smtCount < MaxStreamMemtables
            /\ smtCount' = smtCount + 1
            /\ smt' = [smt EXCEPT ![smtCount + 1] = [data |-> {nmut + 1}, plan |-> p]]
            /\ streaming_memtables_big' = [streaming_memtables_big EXCEPT ![p] =
                   [state |-> "mapped", memtables |-> <<smtCount + 1>>,
                    sstables |-> {}, closed |-> FALSE]]
    /\ UNCHANGED <<cfRest, generation, sstData, crashed, setVars, offStream,
                   streaming_memtables, sealVars, callVars, cache, marked>>

\* flush_when_needed of the streaming dirty memory manager: with the permit
\* and no explicit flusher waiting for it, flush_one runs on the list that
\* owns the largest region, the shared list (p = 0) or the list of plan p,
\* and is not waited for.
StreamFlushOne(p) ==
    /\ ~crashed
    /\ spermit = 0
    /\ spermitWaiters = <<>>
    /\ IF p = 0
       THEN /\ ~sempty(sback)
            /\ seal_active_streaming_memtable_immediate(sback)
            /\ spermit' = sback
            /\ UNCHANGED <<streaming_memtables_big, smt>>
       ELSE /\ streaming_memtables_big[p].state \in {"mapped", "erased"}
            /\ ~sempty(bback(p))
            /\ seal_active_streaming_memtable_big(p, bback(p))
            /\ spermit' = IF streaming_memtables_big[p].closed THEN 0 ELSE bback(p)
            /\ UNCHANGED <<streaming_memtables, waiting_streaming_flushes,
                           delayed_streaming_flush>>
    /\ UNCHANGED <<cfRest, nmut, sstData, crashed, setVars, offStream,
                   spermitWaiters, callVars, cache, marked, mrange>>

\* The timer _delayed_streaming_flush fires and seals the shared list at
\* once.
TimerFires ==
    /\ ~crashed
    /\ delayed_streaming_flush
    /\ IF sempty(sback)
       THEN /\ delayed_streaming_flush' = FALSE
            /\ UNCHANGED <<streaming_memtables, smtCount, generation, sseal,
                           waiting_streaming_flushes>>
       ELSE seal_active_streaming_memtable_immediate(sback)
    /\ UNCHANGED <<cfRest, nmut, sstData, crashed, setVars, offStream,
                   streaming_memtables_big, smt, spermit, spermitWaiters,
                   callVars, cache, marked, mrange>>

\* memtable_list::request_flush, the future handed to the caller that
\* started the request: the continuation of flush_one consumes its outcome,
\* passes it to the shared promise and returns nothing, so the future
\* resolves without an exception whatever the outcome (TRUE: no exception).
request_flush_first_future(ok) == TRUE

\* memtable_list::request_flush, the shared future of _flush_coalescing
\* handed to the callers that joined the request: it carries the outcome
\* of flush_one.
request_flush_shared_future(ok) == ok

Outcome(b) == IF b THEN "ok" ELSE "failed"

\* The callers served by the request that caller c started, after its
\* flush_one ended (ok or with an exception).
request_flush_resolve(rc, c, ok) ==
    [d \in Callers |->
        IF d = c THEN [rc[d] EXCEPT !.pc = Outcome(request_flush_first_future(ok))]
        ELSE IF rc[d].pc = "joined" /\ rc[d].first = c
        THEN [rc[d] EXCEPT !.pc = Outcome(request_flush_shared_future(ok))]
        ELSE rc[d]]

\* _streaming_memtables->request_flush() is called: the caller starts a
\* request and queues for the flush permit, or joins the pending request.
\* Callers are interchangeable and call in the order of their names.
RequestFlushCall(c) ==
    /\ ~crashed
    /\ rcallers[c].pc = "idle"
    /\ \A b \in Callers : b < c => rcallers[b].pc # "idle"
    /\ IF streaming_flush_coalescing = 0
       THEN /\ streaming_flush_coalescing' = c
            /\ rcallers' = [rcallers EXCEPT ![c] = [pc |-> "permit", first |-> c, seal |-> 0]]
            /\ spermitWaiters' = Append(spermitWaiters, [kind |-> "caller", id |-> c])
       ELSE /\ rcallers' = [rcallers EXCEPT ![c] =
                   [pc |-> "joined", first |-> streaming_flush_coalescing, seal |-> 0]]
            /\ UNCHANGED <<streaming_flush_coalescing, spermitWaiters>>
    /\ UNCHANGED <<cfVars, setVars, offStream, listVars, sseal,
                   waiting_streaming_flushes, delayed_streaming_flush, spermit,
                   scalls, fcalls, cache, marked, mrange>>

\* The request of caller c gets the permit: the coalescing promise is taken
\* and flush_one runs on the shared list.
RequestFlushGranted(c) ==
    /\ ~crashed
    /\ spermit = 0
    /\ spermitWaiters # <<>>
    /\ Head(spermitWaiters) = [kind |-> "caller", id |-> c]
    /\ spermitWaiters' = Tail(spermitWaiters)
    /\ streaming_flush_coalescing' = 0
    /\ IF sempty(sback)
       THEN /\ rcallers' = request_flush_resolve(rcallers, c, TRUE)
            /\ UNCHANGED <<streaming_memtables, smtCount, generation, sseal,
                           waiting_streaming_flushes, delayed_streaming_flush, spermit>>
       ELSE /\ seal_active_streaming_memtable_immediate(sback)
            /\ spermit' = sback
            /\ rcallers' = [rcallers EXCEPT ![c].pc = "sealing", ![c].seal = sback]
    /\ UNCHANGED <<cfRest, nmut, sstData, crashed, setVars, offStream,
                   streaming_memtables_big, smt, scalls, fcalls, cache, marked, mrange>>

\* The sstable write of sealed streaming memtable k ends (ok or with an
\* exception). A memtable of the shared list: write_components and open_data
\* are followed by add_sstable, the waiters of the seal are resolved with the
\* outcome and go on to await the phaser, flush_one ends and gives the permit
\* back. A memtable of a plan: the written sstable is kept in the plan's
\* entry; if this was the seal flush_streaming_big_mutations asked for, its
\* request_flush resolves and flush_in_progress.close() is called. A write
\* whose entry was destroyed touches freed memory.
StreamWriteDone(k, ok) ==
    /\ ~crashed
    /\ sseal[k].pc = "writing"
    /\ ~ok => FailedStreamWrites < MaxFailures
    /\ sseal' = [sseal EXCEPT ![k].pc = IF ok THEN "written" ELSE "failed",
                              ![k].waiters = {}]
    /\ spermit' = IF spermit = k THEN 0 ELSE spermit
    /\ LET p == smt[k].plan
           g == sseal[k].gen
       IN  IF p = 0
           THEN /\ IF ok
                   THEN /\ add_sstable(g)
                        /\ sstData' = [sstData EXCEPT ![g] = smt[k].data]
                   ELSE UNCHANGED <<setVars, sstData>>
                /\ scalls' = [q \in Plans |->
                       IF q \in sseal[k].waiters
                       THEN [scalls[q] EXCEPT !.pc = "phaser", !.failed = ~ok,
                                              !.await = InProgressSeals \ {k}]
                       ELSE scalls[q]]
                /\ rcallers' = IF \E c \in Callers :
                                      rcallers[c].pc = "sealing" /\ rcallers[c].seal = k
                               THEN request_flush_resolve(rcallers,
                                        CHOOSE c \in Callers :
                                            rcallers[c].pc = "sealing" /\ rcallers[c].seal = k,
                                        ok)
                               ELSE rcallers
                /\ UNCHANGED <<streaming_memtables_big, crashed>>
           ELSE IF sseal[k].dangling
           THEN /\ crashed' \in BOOLEAN
                /\ UNCHANGED <<setVars, sstData, scalls, rcallers, streaming_memtables_big>>
           ELSE /\ sstData' = IF ok THEN [sstData EXCEPT ![g] = smt[k].data] ELSE sstData
                /\ streaming_memtables_big' = [streaming_memtables_big EXCEPT
                       ![p].sstables = IF ok THEN @ \cup {g} ELSE @,
                       ![p].closed = IF scalls[p].pc = "big_seal" /\ scalls[p].seal = k
                                     THEN TRUE ELSE @]
                /\ scalls' = IF scalls[p].pc = "big_seal" /\ scalls[p].seal = k
                             THEN [scalls EXCEPT ![p].pc = "big_close"]
                             ELSE scalls
                /\ UNCHANGED <<setVars, rcallers, crashed>>
    /\ UNCHANGED <<cfRest, generation, nmut, offStream, streaming_memtables,
                   smt, smtCount, waiting_streaming_flushes, delayed_streaming_flush,
                   spermitWaiters, fcalls, streaming_flush_coalescing, cache,
                   marked, mrange>>

\* flush_streaming_mutations, the continuation of flush_streaming_big_mutations
\* of plan p, from the call records sc: after a failure the delayed seal is
\* skipped and the phaser is awaited at once; else
\* seal_active_streaming_memtable_delayed either finds the active memtable
\* empty, or arms the timer and waits on the shared promise.
seal_active_streaming_memtable_delayed(sc, p, failed) ==
    IF failed \/ sempty(sback)
    THEN /\ scalls' = [sc EXCEPT ![p].pc = "phaser", ![p].failed = failed,
                                 ![p].await = InProgressSeals]
         /\ UNCHANGED <<waiting_streaming_flushes, delayed_streaming_flush>>
    ELSE /\ scalls' = [sc EXCEPT ![p].pc = "delayed"]
         /\ waiting_streaming_flushes' = waiting_streaming_flushes \cup {p}
         /\ delayed_streaming_flush' = TRUE

\* column_family::flush_streaming_mutations(plan_id, ranges) is called, once
\* per plan. flush_streaming_big_mutations takes the plan's entry out of the
\* map and asks for a flush of its list; without an entry it is ready and
\* the delayed seal of the shared list follows at once. The call remembers
\* the streamed mutations of its ranges applied before it (pre).
FlushStreamingCall(p, ranges) ==
    /\ ~crashed
    /\ scalls[p].pc = "idle"
    /\ ranges # {}
    /\ LET sc == [scalls EXCEPT ![p].ranges = ranges,
                                ![p].pre = {m \in 1..nmut : mrange[m] \in ranges}]
       IN  IF streaming_memtables_big[p].state = "mapped"
           THEN /\ streaming_memtables_big' =
                       [streaming_memtables_big EXCEPT ![p].state = "erased"]
                /\ scalls' = [sc EXCEPT ![p].pc = "big_permit"]
                /\ spermitWaiters' = Append(spermitWaiters, [kind |-> "plan", id |-> p])
                /\ UNCHANGED <<waiting_streaming_flushes, delayed_streaming_flush>>
           ELSE /\ seal_active_streaming_memtable_delayed(sc, p, FALSE)
                /\ UNCHANGED <<streaming_memtables_big, spermitWaiters>>
    /\ UNCHANGED <<cfVars, setVars, offStream, streaming_memtables, smt, smtCount,
                   sseal, spermit, fcalls, rcallers, streaming_flush_coalescing,
                   cache, marked, mrange>>

\* flush_streaming_big_mutations, request_flush of the plan's list gets the
\* permit: flush_one seals the active memtable; with an empty one it is
\* ready, request_flush resolves and flush_in_progress.close() is called.
FlushBigGranted(p) ==
    /\ ~crashed
    /\ spermit = 0
    /\ spermitWaiters # <<>>
    /\ Head(spermitWaiters) = [kind |-> "plan", id |-> p]
    /\ spermitWaiters' = Tail(spermitWaiters)
    /\ IF sempty(bback(p))
       THEN /\ streaming_memtables_big' =
                   [streaming_memtables_big EXCEPT ![p].closed = TRUE]
            /\ scalls' = [scalls EXCEPT ![p].pc = "big_close"]
            /\ UNCHANGED <<smt, smtCount, generation, sseal, spermit>>
       ELSE /\ seal_active_streaming_memtable_big(p, bback(p))
            /\ spermit' = bback(p)
            /\ scalls' = [scalls EXCEPT ![p].pc = "big_seal", ![p].seal = bback(p)]
    /\ UNCHANGED <<cfRest, nmut, sstData, crashed, setVars, offStream,
                   streaming_memtables, waiting_streaming_flushes,
                   delayed_streaming_flush, fcalls, rcallers,
                   streaming_flush_coalescing, cache, marked, mrange>>

\* flush_in_progress.close() resolves once no seal of the plan is inside the
\* gate: seal_sstable and open_data start for every sstable of the entry.
FlushBigClosed(p) ==
    /\ ~crashed
    /\ scalls[p].pc = "big_close"
    /\ InProgressBig(p) = {}
    /\ scalls' = [scalls EXCEPT ![p].pc = "big_open"]
    /\ UNCHANGED <<cfVars, setVars, offStream, listVars, sealVars, fcalls, rcallers,
                   streaming_flush_coalescing, cache, marked, mrange>>

\* A plan end that adds the sstables that could be opened also when sealing
\* or opening another one failed.
flush_streaming_big_mutations_adds_partial(ssts, ok) ==
    IF ok THEN ssts ELSE ssts \ {Max(ssts)}

\* flush_streaming_big_mutations, the continuation of the parallel_for_each
\* over seal_sstable and open_data: the sstables add_sstable is called for.
flush_streaming_big_mutations_adds(ssts, ok) ==
    IF ok THEN ssts ELSE {}

\* seal_sstable and open_data of the sstables of the plan's entry have ended
\* (ok, or one of them with an exception). The loop over add_sstable runs
\* without yielding, so the set is seen with none or all of them. The entry
\* is destroyed with the continuation, and the delayed seal follows.
FlushBigOpened(p, ok) ==
    /\ ~crashed
    /\ scalls[p].pc = "big_open"
    /\ ~ok => streaming_memtables_big[p].sstables # {}
    /\ LET add == flush_streaming_big_mutations_adds(
                      streaming_memtables_big[p].sstables, ok)
       IN  IF add # {}
           THEN /\ publish(CurrentSstables \cup add)
                /\ UNCHANGED truncated
           ELSE UNCHANGED setVars
    /\ streaming_memtables_big' =
           [streaming_memtables_big EXCEPT ![p].state = "gone"]
    /\ seal_active_streaming_memtable_delayed(scalls, p, ~ok)
    /\ UNCHANGED <<cfVars, offStream, streaming_memtables, smt, smtCount, sseal,
                   spermit, spermitWaiters, fcalls, rcallers,
                   streaming_flush_coalescing, cache, marked, mrange>>

\* A cache invalidation that leaves the entries in place.
invalidate_keeps(c, ranges) == c

\* _cache.invalidate(range) for every range of ranges.
invalidate(c, ranges) ==
    [R \in Ranges |-> IF R \in ranges THEN NoEntry ELSE c[R]]

\* flush_streaming_mutations, the last continuation: the seals that were
\* under way when the phaser was advanced have ended, the ranges are
\* invalidated in the cache, and the call completes.
FlushStreamingFinish(p) ==
    /\ ~crashed
    /\ scalls[p].pc = "phaser"
    /\ \A k \in scalls[p].await : sseal[k].pc # "writing"
    /\ cache' = invalidate(cache, scalls[p].ranges)
    /\ scalls' = [scalls EXCEPT ![p].pc = "done", ![p].await = {}]
    /\ UNCHANGED <<cfVars, setVars, offStream, listVars, sealVars, fcalls, rcallers,
                   streaming_flush_coalescing, marked, mrange>>

\* column_family::fail_streaming_mutations(plan_id) is called: without an
\* entry in the map it is ready at once ("noentry"); else the entry leaves
\* the map and flush_in_progress.close() is called.
FailStreamingCall(p) ==
    /\ ~crashed
    /\ fcalls[p] = "idle"
    /\ IF streaming_memtables_big[p].state = "mapped"
       THEN /\ streaming_memtables_big' =
                   [streaming_memtables_big EXCEPT ![p].state = "erased",
                                                   ![p].closed = TRUE]
            /\ fcalls' = [fcalls EXCEPT ![p] = "closing"]
       ELSE /\ fcalls' = [fcalls EXCEPT ![p] = "noentry"]
            /\ UNCHANGED streaming_memtables_big
    /\ UNCHANGED <<cfVars, setVars, offStream, streaming_memtables, smt, smtCount,
                   sealVars, scalls, rcallers, streaming_flush_coalescing,
                   cache, marked, mrange>>

\* fail_streaming_mutations, the continuation of flush_in_progress.close():
\* every sstable of the entry is marked for deletion and the entry is
\* destroyed.
FailStreamingClosed(p) ==
    /\ ~crashed
    /\ fcalls[p] = "closing"
    /\ InProgressBig(p) = {}
    /\ marked' = marked \cup streaming_memtables_big[p].sstables
    /\ streaming_memtables_big' =
           [streaming_memtables_big EXCEPT ![p].state = "gone"]
    /\ fcalls' = [fcalls EXCEPT ![p] = "done"]
    /\ UNCHANGED <<cfVars, setVars, offStream, streaming_memtables, smt, smtCount,
                   sealVars, scalls, rcallers, streaming_flush_coalescing,
                   cache, mrange>>

\* A read of range R that misses the cache populates it from the sstable
\* set: the entry holds the streamed mutations of the range found there.
CacheRead(R) ==
    /\ ~crashed
    /\ ~cache[R].present
    /\ cache' = [cache EXCEPT ![R] =
           [present |-> TRUE,
            data |-> {m \in DataOf(CurrentSstables) : m \in MutIds /\ mrange[m] = R}]]
    /\ UNCHANGED <<cfVars, setVars, offStream, listVars, sealVars, callVars,
                   marked, mrange>>

\* ------------------------------------------------------ clear and truncate
\* What a read can reach: the memtables of the list and the sstable set.
Readable(list, S) == UNION {mt[k].data : k \in Range(list)} \cup DataOf(S)

\* column_family::clear(): every memtable of the regular and of the shared
\* streaming list is dropped and a new active one is added to each, the map
\* of the plans' entries is emptied, which destroys the entries nothing else
\* holds, and the cache is cleared. A new empty streaming memtable in place
\* of an empty one is the same state. A seal under way for a destroyed entry
\* is left with a dangling reference to it.
Clear ==
    /\ ~crashed
    /\ UNCHANGED <<sstVars, memVars, cellVars, extVars>>
    /\ mtCount < MaxMemtables
    /\ memtables' = <<mtCount + 1>>
    /\ mtCount' = mtCount + 1
    /\ live' = live \cap DataOf(CurrentSstables)
    /\ IF sempty(sback)
       THEN UNCHANGED <<streaming_memtables, smtCount>>
       ELSE /\ smtCount < MaxStreamMemtables
            /\ streaming_memtables' = <<smtCount + 1>>
            /\ smtCount' = smtCount + 1
    /\ streaming_memtables_big' = [p \in Plans |->
           IF streaming_memtables_big[p].state = "mapped"
           THEN [NoBig EXCEPT !.state = "gone"]
           ELSE streaming_memtables_big[p]]
    /\ sseal' = [k \in StreamIds |->
           IF /\ sseal[k].pc = "writing" /\ smt[k].plan # 0
              /\ streaming_memtables_big[smt[k].plan].state = "mapped"
           THEN [sseal[k] EXCEPT !.dangling = TRUE]
           ELSE sseal[k]]
    /\ cache' = [R \in Ranges |-> NoEntry]
    /\ UNCHANGED <<smt, waiting_streaming_flushes, delayed_streaming_flush, spermit,
                   spermitWaiters, callVars, marked, mrange>>
    /\ UNCHANGED <<commitlog, mt, highest_flushed_rp, flushes, generation,
                   sstData, discards, nmut, threw, crashed, setVars, reqVars>>

\* column_family::discard_sstables(truncated_at), which asserts that
\* compaction is disabled: the sstables not younger than the truncation time
\* leave the set, which is published as a new object. Generations stand for
\* the age of the sstables.
discard_sstables_pruned(g0) == {g \in CurrentSstables : g > g0}

DiscardSstables(g0) ==
    /\ ~crashed
    /\ \A j \in Compactions : compactions[j].pc # "running"
    /\ UNCHANGED <<sstVars, memVars, cellVars, extVars, listVars, sealVars, callVars,
                   marked, mrange>>
    /\ cache' = [R \in Ranges |-> NoEntry]
    /\ discard_sstables_pruned(g0) # CurrentSstables
    /\ publish(discard_sstables_pruned(g0))
    /\ truncated' = truncated \cup (CurrentSstables \ discard_sstables_pruned(g0))
    /\ live' = live \ DataOf(CurrentSstables \ discard_sstables_pruned(g0))
    /\ UNCHANGED <<commitlog, memtables, mt, mtCount, highest_flushed_rp,
                   flushes, generation, sstData, discards, nmut, threw,
                   crashed, reqVars>>

\* ------------------------------------ sstable set, readers and compaction
\* Everything of the flush pipeline but the generation counter.
pipelineVars == <<commitlog, memtables, mt, mtCount, highest_flushed_rp, flushes,
                  sstData, discards, nmut, live, threw, crashed, reqVars>>

\* A flush (of a memtable or of streamed data) adds the sstable it wrote.
FlushAddsSstable ==
    /\ generation < MaxSstables
    /\ generation' = generation + 1
    /\ add_sstable(generation + 1)
    /\ UNCHANGED <<pipelineVars, sstVars, memVars, cellVars, strVars, extVars>>

\* make_sstable_reader: the reader takes a reference to the set object
\* _sstables points to.
ReaderOpen(r) ==
    /\ readers[r].ref = 0
    /\ \A q \in Readers : q < r => readers[q].ref # 0
    /\ Settle(sstables, sstSets,
              [readers EXCEPT ![r] = [ref |-> sstables, seen |-> CurrentSstables]])
    /\ UNCHANGED <<cfVars, truncated, reqVars, sstVars, memVars, cellVars, strVars, extVars>>

\* The reader is destroyed and lets go of its reference.
ReaderClose(r) ==
    /\ readers[r].ref # 0
    /\ Settle(sstables, sstSets, [readers EXCEPT ![r] = NoReader])
    /\ UNCHANGED <<cfVars, truncated, reqVars, sstVars, memVars, cellVars, strVars, extVars>>

\* compact_sstables is called with a non-empty descriptor: sstables of the
\* set that no other compaction works on.
CompactStart(j, input) ==
    /\ compactions[j].pc = "idle"
    /\ input # {}
    /\ \A i \in Compactions : compactions[i].input \cap input = {}
    /\ compactions' = [compactions EXCEPT ![j] = [pc |-> "running", input |-> input]]
    /\ UNCHANGED <<cfVars, setVars, reqVars, compacted_but_not_deleted,
                   undeleted, memVars, cellVars, strVars, extVars>>

\* A rebuild_sstable_list that builds the new set from the sstables the
\* compaction wrote alone.
rebuild_new_sstable_list_of_new(new_sstables, sstables_to_remove) ==
    new_sstables \ sstables_to_remove

\* rebuild_sstable_list: the new set.
rebuild_new_sstable_list(new_sstables, sstables_to_remove) ==
    (new_sstables \cup CurrentSstables) \ sstables_to_remove

\* rebuild_sstable_list: the new compacted-but-not-deleted list.
rebuild_new_compacted_but_not_deleted(new_sstables, sstables_to_remove) ==
    compacted_but_not_deleted
        \cup ((new_sstables \cup CurrentSstables) \cap sstables_to_remove)

\* The compaction ends and calls rebuild_sstable_list with the sstables it
\* wrote (none or one): both lists are replaced and the atomic delete of the
\* compacted sstables starts in the background.
CompactFinish(j, wrote) ==
    /\ compactions[j].pc = "running"
    /\ wrote => generation < MaxSstables
    /\ LET new_sstables == IF wrote THEN {generation + 1} ELSE {}
           removed      == compactions[j].input
       IN  /\ generation' = IF wrote THEN generation + 1 ELSE generation
           /\ publish(rebuild_new_sstable_list(new_sstables, removed))
           /\ compacted_but_not_deleted' =
                  rebuild_new_compacted_but_not_deleted(new_sstables, removed)
           /\ undeleted' = undeleted \cup (CurrentSstables \cap removed)
    /\ compactions' = [compactions EXCEPT ![j].pc = "deleting"]
    /\ UNCHANGED <<pipelineVars, truncated, memVars, cellVars, strVars, extVars>>

\* rebuild_sstable_list, the continuation of delete_atomically: the
\* compacted sstables leave the list whatever the outcome.
purge_after_delete(list, removed, outcome) == list \ removed

\* The outcomes of sstables::delete_atomically.
DeleteOutcomes == {"deleted", "failed", "cancelled"}

\* delete_atomically of the sstables of compaction j ends.
DeleteDone(j, outcome) ==
    /\ compactions[j].pc = "deleting"
    /\ compacted_but_not_deleted' =
           purge_after_delete(compacted_but_not_deleted, compactions[j].input, outcome)
    /\ undeleted' = IF outcome = "deleted"
                    THEN undeleted \ compactions[j].input
                    ELSE undeleted
    /\ compactions' = [compactions EXCEPT ![j] = NoCompaction]
    /\ UNCHANGED <<cfVars, setVars, reqVars, memVars, cellVars, strVars, extVars>>

\* column_family::set_compaction_strategy: the sstables are inserted into a
\* set made by the new strategy, which _sstables is then pointed to.
SetCompactionStrategy ==
    /\ publish(CurrentSstables)
    /\ UNCHANGED <<cfVars, truncated, reqVars, sstVars, memVars, cellVars, strVars, extVars>>

\* ------------------------------------------------ dirty-memory backpressure
\* database::database: the streaming dirty memory manager is a child of the
\* regular one, the regular one a child of the system one, which has no
\* parent ("none").
Parent(g) == IF g = "streaming" THEN "regular"
             ELSE IF g = "regular" THEN "system" ELSE "none"

\* The group and the groups above it.
RECURSIVE Ancestors(_)
Ancestors(g) == IF Parent(g) = "none" THEN {g} ELSE {g} \cup Ancestors(Parent(g))

\* The groups below g, with g.
Descendants(g) == {h \in Groups : g \in Ancestors(h)}

\* database::database: the regular group may grow to half of the memtable
\* space, the streaming group to half of a quarter of it, and the system
\* group to what the regular group may have and a pool of extra memory
\* (10 MB; one unit here).
Limit(g) == IF g = "regular" THEN HardLimit
            ELSE IF g = "streaming" THEN HardLimit \div 4
            ELSE HardLimit + 1

\* region_group: the memory of a group is that of its regions and of the
\* groups below it.
RECURSIVE SumDirty(_, _)
SumDirty(d, G) ==
    IF G = {} THEN 0
    ELSE LET g == CHOOSE x \in G : TRUE IN d[g] + SumDirty(d, G \ {g})

total_memory(d, g) == SumDirty(d, Descendants(g))

\* region_group: the group is above its throttle threshold.
under_pressure(d, g) == total_memory(d, g) > Limit(g)

\* region_group: neither the group nor a group above it is under pressure.
execution_permitted(d, g) == \A a \in Ancestors(g) : ~under_pressure(d, a)

\* region_group::run_when_memory_available: TRUE when the function runs at
\* once, FALSE when it is queued behind the blocked requests of the group.
run_when_memory_available(g) ==
    blocked[g] = <<>> /\ execution_permitted(dirty, g)

\* A write path that calls the column family without asking the region group.
apply_in_memory_ungated(kind) == TRUE

\* The region group whose run_when_memory_available a write is handed to:
\* _streaming_dirty_memory_manager for apply_streaming_mutation,
\* _dirty_memory_manager for every database::apply_in_memory, whatever
\* table the mutation is for.
region_group_of(kind) == IF kind = "streaming" THEN "streaming" ELSE "regular"

\* database::apply_in_memory and database::apply_streaming_mutation: the
\* apply is handed to run_when_memory_available of the regular or of the
\* streaming region group.
apply_in_memory(kind) == run_when_memory_available(region_group_of(kind))

\* The apply of write w runs: the memtable of its table grows, in the group
\* of the dirty memory manager the table was given (system tables: the
\* system one).
Execute(w, kind) ==
    /\ dirty' = [dirty EXCEPT ![kind] = @ + 1]

\* A write arrives at database::apply_in_memory (kind "regular": a user
\* table, kind "system": a system table) or at
\* database::apply_streaming_mutation (kind "streaming"). Writes are
\* interchangeable and arrive in the order of their names.
WriteArrive(w, kind) ==
    /\ writes[w].pc = "none"
    /\ \A v \in Writes : v < w => writes[v].pc # "none"
    /\ IF apply_in_memory(kind)
       THEN /\ Execute(w, kind)
            /\ writes' = [writes EXCEPT ![w] =
                   [pc |-> "applied", kind |-> kind, above |-> FALSE, relieved |-> FALSE]]
            /\ UNCHANGED blocked
       ELSE /\ blocked' = [blocked EXCEPT ![region_group_of(kind)] = Append(@, w)]
            /\ writes' = [writes EXCEPT ![w] =
                   [pc |-> "blocked", kind |-> kind,
                    above |-> ~execution_permitted(dirty, region_group_of(kind)),
                    relieved |-> FALSE]]
            /\ UNCHANGED dirty
    /\ UNCHANGED <<cfVars, setVars, reqVars, sstVars, cellVars, strVars, extVars>>

\* A memtable flush releases n units of the (virtual) dirty memory of group
\* g. Blocked writes whose group is no longer held back are relieved.
FlushRelease(g, n) ==
    /\ n >= 1 /\ n <= dirty[g]
    /\ dirty' = [dirty EXCEPT ![g] = @ - n]
    /\ writes' = [w \in Writes |->
           IF writes[w].pc = "blocked"
              /\ execution_permitted(dirty', region_group_of(writes[w].kind))
           THEN [writes[w] EXCEPT !.relieved = TRUE]
           ELSE writes[w]]
    /\ UNCHANGED <<cfVars, setVars, reqVars, sstVars, blocked, cellVars, strVars, extVars>>

\* region_group: with execution permitted again, the oldest blocked request
\* of the group runs.
RunBlocked(g) ==
    /\ blocked[g] # <<>>
    /\ execution_permitted(dirty, g)
    /\ Execute(Head(blocked[g]), writes[Head(blocked[g])].kind)
    /\ blocked' = [blocked EXCEPT ![g] = Tail(@)]
    /\ writes' = [writes EXCEPT ![Head(blocked[g])].pc = "applied"]
    /\ UNCHANGED <<cfVars, setVars, reqVars, sstVars, cellVars, strVars, extVars>>

\* ------------------------------------------------------ cell reconciliation
\* Bytes of cell values: one below and one above the sign bit.
Bytes == {1, 128}

Values == UNION {[1..n -> Bytes] : n \in 0..MaxValueLen}

\* Deletion times are signed 32-bit counts of seconds.
DeletionTimes == (0 - MaxDeletion)..MaxDeletion

LiveCells ==
    {[timestamp |-> t, live |-> TRUE, value |-> v, has_ttl |-> FALSE,
      expiry |-> 0, deletion_time |-> 0] : t \in 1..MaxTimestamp, v \in Values}
    \cup
    {[timestamp |-> t, live |-> TRUE, value |-> v, has_ttl |-> TRUE,
      expiry |-> e, deletion_time |-> 0] :
         t \in 1..MaxTimestamp, v \in Values, e \in 1..MaxExpiry}

DeadCells ==
    {[timestamp |-> t, live |-> FALSE, value |-> <<>>, has_ttl |-> FALSE,
      expiry |-> 0, deletion_time |-> d] : t \in 1..MaxTimestamp, d \in DeletionTimes}

Cells == LiveCells \cup DeadCells

\* compare_unsigned(bytes_view, bytes_view): the bytes are compared as
\* unsigned numbers over the common length, then the lengths.
RECURSIVE compare_unsigned(_, _)
compare_unsigned(v1, v2) ==
    IF v1 = <<>> \/ v2 = <<>>
    THEN (IF Len(v1) = Len(v2) THEN 0 ELSE IF Len(v1) < Len(v2) THEN -1 ELSE 1)
    ELSE IF Head(v1) # Head(v2)
         THEN (IF Head(v1) < Head(v2) THEN -1 ELSE 1)
         ELSE compare_unsigned(Tail(v1), Tail(v2))

\* (uint32_t) of a signed 32-bit count, as its two 16-bit halves, the high
\* half first: a negative count d becomes d + 2^32.
to_uint32(d) ==
    IF d >= 0 THEN <<d \div 65536, d % 65536>>
    ELSE <<65536 + ((d - (d % 65536)) \div 65536), d % 65536>>

uint32_less(x, y) == x[1] < y[1] \/ (x[1] = y[1] /\ x[2] < y[2])

\* A comparison of the deletion times as signed counts.
compare_deletion_time_signed(l, r) ==
    IF l.deletion_time < r.deletion_time THEN -1 ELSE 1

\* compare_atomic_cell_for_merge, both cells deleted with different
\* deletion times: they are compared as unsigned 32-bit counts.
compare_deletion_time(l, r) ==
    IF uint32_less(to_uint32(l.deletion_time), to_uint32(r.deletion_time))
    THEN -1 ELSE 1

\* A comparison of the expiries in which the earlier expiry wins.
compare_expiry_earlier_wins(l, r) ==
    IF l.expiry < r.expiry THEN 1 ELSE -1

\* compare_atomic_cell_for_merge, both cells live with a TTL, equal values
\* and different expiries.
compare_expiry(l, r) ==
    IF l.expiry < r.expiry THEN -1 ELSE 1

\* atomic_cell_view::is_live_and_has_ttl()
is_live_and_has_ttl(c) == c.live /\ c.has_ttl

\* compare_atomic_cell_for_merge(left, right): positive when left wins.
compare_atomic_cell_for_merge(l, r) ==
    IF l.timestamp # r.timestamp
    THEN (IF l.timestamp > r.timestamp THEN 1 ELSE -1)
    ELSE IF l.live # r.live
    THEN (IF l.live THEN -1 ELSE 1)
    ELSE IF l.live
    THEN LET c == compare_unsigned(l.value, r.value)
         IN  IF c # 0 THEN c
             ELSE IF is_live_and_has_ttl(l) /\ is_live_and_has_ttl(r)
                     /\ l.expiry # r.expiry
                  THEN compare_expiry(l, r)
                  ELSE 0
    ELSE IF l.deletion_time # r.deletion_time
         THEN compare_deletion_time(l, r)
         ELSE 0

\* The merge of two versions of a cell: the stored cell a is replaced by the
\* incoming cell b when it compares lower.
reconcile(a, b) ==
    IF compare_atomic_cell_for_merge(a, b) < 0 THEN b ELSE a

\* Three cells are handed to the comparison.
InitCells ==
    /\ left \in Cells /\ right \in Cells /\ third \in Cells
    /\ cellpc = "drawn"
    /\ cmp = NoCmp
    /\ merged = NoMerged

\* left and right are compared, in both orders.
CompareCells ==
    /\ cellpc = "drawn"
    /\ cmp' = [lr |-> compare_atomic_cell_for_merge(left, right),
               rl |-> compare_atomic_cell_for_merge(right, left)]
    /\ cellpc' = "compared"
    /\ UNCHANGED <<cfVars, setVars, reqVars, sstVars, memVars, strVars, extVars,
                   left, right, third, merged>>

\* The three cells are reconciled, grouped to the left and to the right.
ReconcileCells ==
    /\ cellpc = "compared"
    /\ merged' = [l |-> reconcile(reconcile(left, right), third),
                  r |-> reconcile(left, reconcile(right, third))]
    /\ cellpc' = "merged"
    /\ UNCHANGED <<cfVars, setVars, reqVars, sstVars, memVars, strVars, extVars,
                   left, right, third, cmp>>

\* ------------------------------------------------------- populate at boot
\* The components probe_file tells apart.
Components == {"TOC", "TemporaryTOC", "Data", "TemporaryStatistics"}

\* populate, the continuation of probe_file for one directory entry: the
\* status of the entry's generation after it ("throw": the continuation
\* throws malformed_sstable_exception). A TemporaryStatistics file is
\* removed and leaves the status alone.
verifier_update(status, component) ==
    IF component = "TemporaryStatistics" THEN status
    ELSE IF status # "none"
    THEN IF status = "has_toc_file"
         THEN (IF component \in {"TOC", "TemporaryTOC"} THEN "throw" ELSE status)
         ELSE IF component = "TOC" THEN "has_toc_file"
         ELSE IF component = "TemporaryTOC" THEN "has_temporary_toc_file"
         ELSE status
    ELSE IF component = "TOC" THEN "has_toc_file"
    ELSE IF component = "TemporaryTOC" THEN "has_temporary_toc_file"
    ELSE "has_some_file"

\* A post-scan check that removes partial sstables on every shard.
post_scan_verdict_on_every_shard(status, cpu) ==
    IF status = "has_temporary_toc_file" THEN "remove"
    ELSE IF status \notin {"has_toc_file", "none"} THEN "fatal"
    ELSE "ok"

\* populate, the check of one generation after the scan: a partial sstable
\* is removed on shard 0 and ignored elsewhere, a generation without TOC is
\* fatal.
post_scan_verdict(status, cpu) ==
    IF status = "has_temporary_toc_file"
    THEN (IF cpu # 0 THEN "ignore" ELSE "remove")
    ELSE IF status \notin {"has_toc_file", "none"} THEN "fatal"
    ELSE "ok"

\* column_family::populate(sstdir) is called on some shard for a directory
\* that holds some files.
InitPopulate ==
    /\ shard \in Shards
    /\ dir \in SUBSET (PopGens \X Components)
    /\ unprobed = dir
    /\ verifier = [g \in PopGens |-> "none"]
    /\ scan_failed = FALSE
    /\ ppc = "scan"
    /\ removed_partial = {}
    /\ ready_for_writes = FALSE

\* The continuation of probe_file runs for directory entry f; the entries
\* are probed concurrently, so in any order.
Probe(f) ==
    /\ ppc = "scan"
    /\ f \in unprobed
    /\ unprobed' = unprobed \ {f}
    /\ LET st == verifier_update(verifier[f[1]], f[2])
       IN  IF st = "throw"
           THEN /\ scan_failed' = TRUE
                /\ UNCHANGED verifier
           ELSE /\ verifier' = [verifier EXCEPT ![f[1]] = st]
                /\ UNCHANGED scan_failed
    /\ UNCHANGED <<offPop, shard, dir, ppc, removed_partial, ready_for_writes>>

\* All probes have ended: a failed one fails populate; else every generation
\* seen is checked, and populate marks the column family ready for writes
\* if no check threw. With a fatal generation, which of the partial
\* sstables were removed before the exception depends on the order of the
\* iteration.
PostScan ==
    /\ ppc = "scan"
    /\ unprobed = {}
    /\ LET verdict(g) == post_scan_verdict(verifier[g], shard)
           toRemove == {g \in PopGens : verdict(g) = "remove"}
           fatal == {g \in PopGens : verdict(g) = "fatal"}
       IN  IF scan_failed
           THEN /\ ppc' = "failed"
                /\ UNCHANGED <<removed_partial, ready_for_writes>>
           ELSE IF fatal # {}
           THEN /\ ppc' = "failed"
                /\ removed_partial' \in SUBSET toRemove
                /\ UNCHANGED ready_for_writes
           ELSE /\ ppc' = "done"
                /\ removed_partial' = toRemove
                /\ ready_for_writes' = TRUE
    /\ UNCHANGED <<offPop, shard, dir, unprobed, verifier, scan_failed>>

\* ------------------------------------------------- snapshot on all shards
\* A nominated shard that seals the snapshot as soon as one shard has
\* registered.
requests_wait_for_one(requests) == requests >= 1

\* snapshot->requests.wait(smp::count): the wait of the nominated shard's
\* own request resolves once smp::count registrations have been signalled.
requests_wait(requests) == requests >= MaxShards

\* A snapshot of jsondir is taken: hash(jsondir) % smp::count nominates a
\* shard.
InitSnapshot ==
    /\ nominated \in Shards
    /\ snap = [s \in Shards |-> NoSnap]
    /\ pending_snapshots = NoManager
    /\ sealpc = "none"
    /\ manifest_json = {}
    /\ manifests = <<>>

\* column_family::snapshot(name) on shard s: after the flush, links are
\* made for the shard's sstables (ok, or one of them fails other than with
\* EEXIST), and whatever the outcome the file names are sent to the
\* nominated shard.
SnapshotCall(s, files, ok) ==
    /\ snap[s].pc = "idle"
    /\ snap' = [snap EXCEPT ![s] = [pc |-> "submitted", files |-> files,
                                     link_failed |-> ~ok]]
    /\ UNCHANGED <<offSnap, nominated, pending_snapshots, sealpc, manifest_json, manifests>>

\* The request of shard s runs on the nominated shard: the manager is made
\* on demand, the file names are registered and requests is signalled; the
\* nominated shard's own request goes on to wait for all registrations.
Register(s) ==
    /\ snap[s].pc = "submitted"
    /\ pending_snapshots' = [exists |-> TRUE,
                              files |-> pending_snapshots.files \cup snap[s].files,
                              requests |-> pending_snapshots.requests + 1,
                              manifest_write |-> pending_snapshots.manifest_write]
    /\ snap' = [snap EXCEPT ![s].pc = "registered"]
    /\ sealpc' = IF s = nominated THEN "waiting" ELSE sealpc
    /\ UNCHANGED <<offSnap, nominated, manifest_json, manifests>>

\* The wait on requests resolves and seal_snapshot is called: it builds the
\* json text from the files registered so far and starts writing.
SealStart ==
    /\ sealpc = "waiting"
    /\ requests_wait(pending_snapshots.requests)
    /\ pending_snapshots' = [pending_snapshots EXCEPT !.requests = @ - MaxShards]
    /\ manifest_json' = pending_snapshots.files
    /\ sealpc' = "writing"
    /\ UNCHANGED <<offSnap, nominated, snap, manifests>>

\* seal_snapshot ends: the entry of pending_snapshots is erased either way.
\* After a written manifest manifest_write is signalled smp::count times;
\* after a failure it is not, and the nominated shard's own call fails.
SealDone(ok) ==
    /\ sealpc = "writing"
    /\ IF ok
       THEN /\ manifests' = Append(manifests, manifest_json)
            /\ pending_snapshots' = [pending_snapshots EXCEPT
                   !.exists = FALSE, !.manifest_write = @ + MaxShards]
            /\ sealpc' = "written"
            /\ UNCHANGED snap
       ELSE /\ pending_snapshots' = [pending_snapshots EXCEPT !.exists = FALSE]
            /\ sealpc' = "failed"
            /\ snap' = [snap EXCEPT ![nominated].pc = "failed"]
            /\ UNCHANGED manifests
    /\ UNCHANGED <<offSnap, nominated, manifest_json>>

\* snapshot->manifest_write.wait(1) of the request of shard s resolves, for
\* the nominated shard's own request after its seal_snapshot: the call of
\* shard s completes, with the failure of its links if there was one.
SnapshotComplete(s) ==
    /\ snap[s].pc = "registered"
    /\ s = nominated => sealpc = "written"
    /\ pending_snapshots.manifest_write >= 1
    /\ pending_snapshots' = [pending_snapshots EXCEPT !.manifest_write = @ - 1]
    /\ snap' = [snap EXCEPT ![s].pc = IF snap[s].link_failed THEN "failed" ELSE "done"]
    /\ UNCHANGED <<offSnap, nominated, sealpc, manifest_json, manifests>>

\* ------------------------------------------------------- database writes
\* The synchronous part of database::do_apply for a synced schema:
\* find_column_family throws no_such_column_family when the id is not in
\* _column_families; with a commit log the mutation is appended to it,
\* without one it is applied in memory with the zero position.
do_apply(rec) ==
    IF ~column_families
    THEN [rec EXCEPT !.pc = "failed", !.error = "no_such_column_family"]
    ELSE IF commitlog
         THEN [rec EXCEPT !.pc = "appending"]
         ELSE [rec EXCEPT !.pc = "in_memory", !.rp = ZeroRp]

\* database::apply(s, m)
DbApplyCall(w) ==
    /\ dbw[w].pc = "idle"
    /\ \A v \in DbWrites : v < w => dbw[v].pc # "idle"
    /\ dbw' = [dbw EXCEPT ![w] = do_apply(@)]
    /\ UNCHANGED <<cfVars, offDb, column_families, cl_position>>

\* commitlog::add_entry resolves: the entry gets the next replay position
\* and do_apply's continuation calls apply_in_memory with it.
AddEntryDone(w) ==
    /\ dbw[w].pc = "appending"
    /\ cl_position < MaxPosition
    /\ cl_position' = cl_position + 1
    /\ dbw' = [dbw EXCEPT ![w] = [@ EXCEPT !.pc = "in_memory",
                                           !.rp = cl_position + 1,
                                           !.appends = @ + 1]]
    /\ UNCHANGED <<cfVars, offDb, column_families>>

\* An apply_in_memory whose function does not catch no_such_column_family.
in_memory_outcome_uncaught(rp) ==
    IF ~column_families THEN "no_such_column_family"
    ELSE IF check_valid_rp(rp) THEN "applied" ELSE "reordered"

\* The function apply_in_memory hands to the region group: a column family
\* that is not found is logged, one that is found applies the mutation
\* unless check_valid_rp throws.
in_memory_outcome(rp) ==
    IF ~column_families THEN "logged"
    ELSE IF check_valid_rp(rp) THEN "applied" ELSE "reordered"

\* A handler that tries again once only: the exception of the second
\* attempt goes to the caller.
do_apply_handler_retries_once(rec) ==
    IF rec.appends < 2 THEN do_apply(rec)
    ELSE [rec EXCEPT !.pc = "failed", !.error = "reordered"]

\* The handle_exception of do_apply on replay_position_reordered_exception:
\* it calls database::apply again, whose do_apply installs the same handler
\* on the new attempt.
do_apply_handler(rec) == do_apply(rec)

\* The function of apply_in_memory runs, and do_apply's handler after it.
ApplyInMemory(w) ==
    /\ ~crashed
    /\ dbw[w].pc = "in_memory"
    /\ LET outcome == in_memory_outcome(dbw[w].rp)
       IN  CASE outcome = "logged" ->
                   /\ dbw' = [dbw EXCEPT ![w] = [@ EXCEPT !.pc = "done", !.logged = TRUE]]
                   /\ UNCHANGED <<mt, nmut, live, threw>>
             [] outcome = "no_such_column_family" ->
                   /\ dbw' = [dbw EXCEPT ![w] = [@ EXCEPT !.pc = "failed",
                                                          !.error = outcome]]
                   /\ UNCHANGED <<mt, nmut, live, threw>>
             [] outcome = "applied" ->
                   /\ nmut < MaxMutations
                   /\ mt' = memtable_apply(back, nmut + 1, dbw[w].rp)
                   /\ nmut' = nmut + 1
                   /\ live' = live \cup {nmut + 1}
                   /\ threw' = FALSE
                   /\ dbw' = [dbw EXCEPT ![w] = [@ EXCEPT !.pc = "done"]]
             [] outcome = "reordered" ->
                   /\ threw' = TRUE
                   /\ dbw' = [dbw EXCEPT ![w] = do_apply_handler(@)]
                   /\ UNCHANGED <<mt, nmut, live>>
    /\ UNCHANGED <<commitlog, memtables, mtCount, highest_flushed_rp, flushes,
                   generation, sstData, discards, crashed, offDb,
                   column_families, cl_position>>

\* database::drop_column_family: the id leaves _column_families.
DropColumnFamily ==
    /\ column_families
    /\ column_families' = FALSE
    /\ UNCHANGED <<cfVars, offDb, cl_position, dbw>>

\* ------------------------------------------------------------------- stop
\* column_family::stop() is called: request_flush on the regular list (the
\* request_flush on the streaming list follows at once).
StopCall ==
    /\ ~crashed
    /\ stop_pc = "none"
    /\ stop_pc' = "flushing"
    /\ LET r == IF flush_coalescing = 0 THEN NewRequest ELSE flush_coalescing
       IN  /\ stop_req' = r
           /\ IF flush_coalescing = 0
              THEN /\ flush_coalescing' = r
                   /\ reqs' = [reqs EXCEPT ![r] = [pc |-> "permit", mt |-> 0]]
                   /\ permitWaiters' = Append(permitWaiters, r)
              ELSE UNCHANGED <<flush_coalescing, reqs, permitWaiters>>
    /\ UNCHANGED <<offStop, permit, callers, closed>>

\* stop() has called request_flush on the regular list and not yet on the
\* streaming list, which it does through caller 1.
StopCalling == stop_pc = "flushing" /\ rcallers[1].pc = "idle"

\* What stop() waits for where it stands: both request_flush calls, the
\* compactions of the column family, then the entries of the flush queue,
\* the streaming flushes in their gate and the deletions in theirs.
stop_may_go_on ==
    CASE stop_pc = "flushing" ->
             reqs[stop_req].pc \in {"ok", "failed"} /\ rcallers[1].pc \in {"ok", "failed"}
      [] stop_pc = "removing" -> \A j \in Compactions : compactions[j].pc # "running"
      [] stop_pc = "flush_queue" -> Pending = {}
      [] stop_pc = "streaming_flush_gate" -> InProgressSeals = {}
      [] stop_pc = "sstable_deletion_gate" ->
             \A j \in Compactions : compactions[j].pc # "deleting"
      [] OTHER -> FALSE

\* The next continuation of stop(): _compaction_manager.remove(this),
\* _flush_queue->close(), _streaming_flush_gate.close(),
\* _sstable_deletion_gate.close(), and the end of stop().
StopStep ==
    /\ stop_may_go_on
    /\ stop_pc' = CASE stop_pc = "flushing" -> "removing"
                    [] stop_pc = "removing" -> "flush_queue"
                    [] stop_pc = "flush_queue" -> "streaming_flush_gate"
                    [] stop_pc = "streaming_flush_gate" -> "sstable_deletion_gate"
                    [] stop_pc = "sstable_deletion_gate" -> "stopped"
    /\ closed' = IF stop_pc' \in {"flush_queue", "streaming_flush_gate",
                                  "sstable_deletion_gate"}
                 THEN [closed EXCEPT ![stop_pc'] = TRUE]
                 ELSE closed
    /\ UNCHANGED <<offStop, reqVars, stop_req>>

\* -------------------------------------------------- memory-driven flusher
\* The regions of the group of the regular manager and of the groups below
\* it, each with the memtable list that owns it: the memtables of the
\* regular list, and the streaming memtables of the shared list, in the
\* list or sealed and being written.
Regions ==
    {<<"regular", k>> : k \in Range(memtables)}
        \cup {<<"streaming", k>> : k \in Range(streaming_memtables) \cup InProgressSeals}

\* The memory of a region.
region_size(reg) ==
    IF reg[1] = "regular" THEN Cardinality(mt[reg[2]].data)
                          ELSE Cardinality(smt[reg[2]].data)

\* dirty_memory_manager::over_soft_limit(): the memory of the group is
\* above half of what the group may grow to.
over_soft_limit ==
    Cardinality(UNION ({mt[k].data : k \in Range(memtables)}
        \cup {smt[k].data : k \in Range(streaming_memtables) \cup InProgressSeals}))
            > HardLimit \div 2

\* A choice of list that ignores the sizes of the regions.
largest_region_lists_any == {"regular", "streaming"}

\* memtable::from_region(*get_largest_region()).get_memtable_list(): the
\* lists that own a region no other region is larger than.
largest_region_lists ==
    {reg[1] : reg \in {r \in Regions :
                          \A q \in Regions : region_size(q) <= region_size(r)}}

\* A flusher that does not give way to explicit flushers.
flush_when_needed_ignores_waiters(waiters, over, shutdown) ==
    over /\ ~shutdown

\* flush_when_needed with the permit in hand: TRUE when it goes on to
\* flush_one, FALSE when it returns and lets the permit go.
flush_when_needed_flushes(waiters, over, shutdown) ==
    ~(waiters > 0) /\ ~(~over \/ shutdown)

\* flush_when_needed has work (the group is over its soft limit) and asks
\* for the flush permit.
FlusherWake ==
    /\ ~crashed
    /\ flusher_pc = "idle"
    /\ ~db_shutdown_requested
    /\ over_soft_limit
    /\ flusher_pc' = "permit"
    /\ permitWaiters' = Append(permitWaiters, 0)
    /\ UNCHANGED <<cfVars, strVars, offFlusher, permit, flush_coalescing, reqs, callers,
                   db_shutdown_requested, flusher_ahead, inflight_at_shutdown,
                   shutdown_done>>

\* The flushes started through flush_one whose seal has not resolved: they
\* hold a unit of _background_work_flush_serializer, or wait for one (k: the
\* flush of memtable k, -k: the seal of streaming memtable k).
flush_one_in_flight ==
    {k \in MemtableIds : flushes[k].pc \in {"writing", "sleeping", "cache", "flushed"}}
        \cup {0 - k : k \in InProgressSeals}

\* The units of _background_work_flush_serializer that are taken. A
\* flush_one that asks after flush_when_needed asked for all the units
\* waits behind it and holds none.
background_units_held ==
    IF flusher_pc = "stopped" THEN Cardinality(flush_one_in_flight \cap flusher_ahead)
                              ELSE Cardinality(flush_one_in_flight)

\* A flusher that asks for one unit of background work when its loop ends.
flush_when_needed_finally_units_one == max_background_work - (max_background_work - 1)

\* The units flush_when_needed asks for when its loop ends.
flush_when_needed_finally_units == max_background_work

\* The flusher gets the permit: it gives way, finds the condition abated,
\* or calls flush_one on the list of the largest region without waiting
\* for it. The permit goes with the region of the sealed memtable (-k: of
\* streaming memtable k) or is let go. When shutdown was requested the
\* loop ends and the flusher asks for the units of background work.
FlusherGranted ==
    /\ ~crashed
    /\ flusher_pc = "permit"
    /\ permit = 0
    /\ permitWaiters # <<>> /\ Head(permitWaiters) = 0
    /\ permitWaiters' = Tail(permitWaiters)
    /\ flusher_pc' = IF db_shutdown_requested THEN "stopped" ELSE "idle"
    /\ IF flush_when_needed_flushes(Len(Tail(permitWaiters)), over_soft_limit,
                                    db_shutdown_requested)
       THEN \E l \in largest_region_lists :
               IF l = "regular"
               THEN /\ flush_one(0)
                    /\ UNCHANGED <<commitlog, mt, sstData, discards, nmut, live, threw,
                                   strVars>>
               ELSE /\ IF sempty(sback)
                       THEN /\ permit' = 0
                            /\ UNCHANGED <<streaming_memtables, smtCount,
                                           delayed_streaming_flush, generation, sseal,
                                           waiting_streaming_flushes>>
                       ELSE /\ seal_active_streaming_memtable_immediate(sback)
                            /\ permit' = 0 - sback
                    /\ UNCHANGED <<cfRest, nmut, sstData, crashed, reqs,
                                   streaming_memtables_big, smt, spermit, spermitWaiters,
                                   callVars, cache, marked, mrange>>
       ELSE UNCHANGED <<cfVars, strVars, permit, reqs>>
    /\ flusher_ahead' = IF db_shutdown_requested THEN flush_one_in_flight ELSE flusher_ahead
    /\ UNCHANGED <<offFlusher, flush_coalescing, callers, db_shutdown_requested,
                   inflight_at_shutdown, shutdown_done>>

\* flush_one, the continuation of the seal of a streaming memtable: the
\* permit is taken from the flush manager of the region.
FlusherPermitBack ==
    /\ permit < 0
    /\ sseal[0 - permit].pc # "writing"
    /\ permit' = 0
    /\ UNCHANGED <<cfVars, strVars, offFlusher, flusherVars, permitWaiters,
                   flush_coalescing, reqs, callers>>

\* dirty_memory_manager::shutdown(): the flag is set and the flusher is
\* woken; a flusher that waits for work has work now and asks for the flush
\* permit.
Shutdown ==
    /\ ~db_shutdown_requested
    /\ db_shutdown_requested' = TRUE
    /\ inflight_at_shutdown' = flush_one_in_flight
    /\ IF flusher_pc = "idle"
       THEN /\ flusher_pc' = "permit"
            /\ permitWaiters' = Append(permitWaiters, 0)
       ELSE UNCHANGED <<flusher_pc, permitWaiters>>
    /\ UNCHANGED <<cfVars, strVars, offFlusher, permit, flush_coalescing, reqs, callers,
                   flusher_ahead, shutdown_done>>

\* flush_when_needed, after its loop: all the units of background work are
\* there, the future of flush_when_needed resolves.
FlusherDrained ==
    /\ flusher_pc = "stopped"
    /\ max_background_work - background_units_held >= flush_when_needed_finally_units
    /\ flusher_pc' = "done"
    /\ UNCHANGED <<cfVars, strVars, offFlusher, reqVars, db_shutdown_requested,
                   flusher_ahead, inflight_at_shutdown, shutdown_done>>

\* shutdown(), the continuation of _waiting_flush: the region group is shut
\* down and the future of shutdown() resolves.
ShutdownDone ==
    /\ db_shutdown_requested
    /\ flusher_pc = "done"
    /\ ~shutdown_done
    /\ shutdown_done' = TRUE
    /\ UNCHANGED <<cfVars, strVars, offFlusher, reqVars, flusher_pc, db_shutdown_requested,
                   flusher_ahead, inflight_at_shutdown>>

\* ------------------------------------------------------------------- Spec
\* The flush pipeline of one column family, flushes started by the
\* memory-driven flusher. A cache update that fails is logged and changes
\* nothing else: it is left to SpecRetry.
Next ==
    \/ \E rp \in Rps : Apply(rp)
    \/ \E rp \in Rps : ApplyMutation(rp)
    \/ ReactiveFlush
    \/ \E k \in MemtableIds, ok \in BOOLEAN : WriteDone(k, ok)
    \/ \E k \in MemtableIds : Retry(k)
    \/ \E k \in MemtableIds : CacheDone(k, TRUE)
    \/ \E k \in MemtableIds : Post(k)
    \/ Clear
    \/ \E g0 \in Generations : DiscardSstables(g0)

Spec == Init /\ [][Next]_vars

\* The same pipeline with explicit flushes by callers of
\* column_family::flush(). Callers are interchangeable, so they call in the
\* order of their names. An apply that throws changes nothing of the
\* pipeline, and failing sstable writes only delay it: both are left to Spec.
ApplyAccepted(rp) == check_valid_rp(rp) /\ Apply(rp)

NextFlush ==
    \/ \E rp \in Rps : ApplyAccepted(rp)
    \/ \E c \in Callers : FlushCall(c)
    \/ RequestGranted
    \/ ReactiveFlush
    \/ \E k \in MemtableIds : WriteDone(k, TRUE)
    \/ \E k \in MemtableIds : CacheDone(k, TRUE)
    \/ \E k \in MemtableIds : Post(k)
    \/ \E c \in Callers : FlushResume(c)

SpecFlush == Init /\ [][NextFlush]_vars

\* The pipeline with failing sstable writes and failing cache updates. The
\* I/O of a flush ends, the 10 s sleep ends and ready continuations run; a
\* write that is tried again and again succeeds in the end.
NextRetry ==
    \/ \E rp \in Rps : Apply(rp)
    \/ ReactiveFlush
    \/ \E k \in MemtableIds, ok \in BOOLEAN : WriteDone(k, ok)
    \/ \E k \in MemtableIds : Retry(k)
    \/ \E k \in MemtableIds, ok \in BOOLEAN : CacheDone(k, ok)
    \/ \E k \in MemtableIds : Post(k)

SpecRetry ==
    /\ Init
    /\ [][NextRetry]_vars
    /\ \A k \in MemtableIds :
          /\ WF_vars(WriteDone(k, TRUE))
          /\ WF_vars(Retry(k))
          /\ WF_vars(\E ok \in BOOLEAN : CacheDone(k, ok))
          /\ WF_vars(Post(k))

\* The sstable set of one column family with its readers: flushes add
\* sstables, compactions replace them, truncation and strategy changes
\* republish the set.
NextSst ==
    \/ FlushAddsSstable
    \/ \E r \in Readers : ReaderOpen(r)
    \/ \E r \in Readers : ReaderClose(r)
    \/ \E j \in Compactions, input \in SUBSET CurrentSstables : CompactStart(j, input)
    \/ \E j \in Compactions, wrote \in BOOLEAN : CompactFinish(j, wrote)
    \/ \E j \in Compactions, outcome \in DeleteOutcomes : DeleteDone(j, outcome)
    \/ SetCompactionStrategy
    \/ \E g0 \in Generations : DiscardSstables(g0)

SpecSst == Init /\ [][NextSst]_vars

\* Writes to user tables and streamed writes through the dirty-memory gate
\* (writes to system tables: SpecSys). While a group is above its limit
\* the flusher keeps flushing, and a region group serves its blocked
\* requests whenever execution is permitted.
NextMem ==
    \/ \E w \in Writes, kind \in {"regular", "streaming"} : WriteArrive(w, kind)
    \/ \E g \in Groups, n \in 1..(HardLimit + 1) : FlushRelease(g, n)
    \/ \E g \in Groups : RunBlocked(g)

SpecMem ==
    /\ Init
    /\ [][NextMem]_vars
    /\ WF_vars(\E g \in Groups, n \in 1..(HardLimit + 1) :
                   (\E h \in Groups : under_pressure(dirty, h)) /\ FlushRelease(g, n))
    /\ \A g \in Groups : WF_vars(RunBlocked(g))

\* Streaming ingest: plans stream mutations into the column family and end
\* with flush_streaming_mutations or fail_streaming_mutations, while the
\* flusher of the streaming dirty memory manager seals memtables, reads
\* populate the cache and readers hold the sstable set.
NextStream ==
    \/ \E p \in Plans, R \in Ranges, fragmented \in BOOLEAN : StreamApply(p, R, fragmented)
    \/ \E p \in 0..MaxPlans : StreamFlushOne(p)
    \/ \E k \in StreamIds, ok \in BOOLEAN : StreamWriteDone(k, ok)
    \/ TimerFires
    \/ \E p \in Plans, ranges \in SUBSET Ranges : FlushStreamingCall(p, ranges)
    \/ \E p \in Plans : FlushBigGranted(p)
    \/ \E p \in Plans : FlushBigClosed(p)
    \/ \E p \in Plans, ok \in BOOLEAN : FlushBigOpened(p, ok)
    \/ \E p \in Plans : FlushStreamingFinish(p)
    \/ \E p \in Plans : FailStreamingCall(p)
    \/ \E p \in Plans : FailStreamingClosed(p)
    \/ \E R \in Ranges : CacheRead(R)
    \/ \E r \in Readers : ReaderOpen(r)
    \/ \E r \in Readers : ReaderClose(r)

SpecStream == Init /\ [][NextStream]_vars

\* Callers of request_flush on the shared streaming memtable list, whose
\* seal is not tried again when its sstable write fails.
NextRequest ==
    \/ \E p \in Plans, R \in Ranges : StreamApply(p, R, FALSE)
    \/ \E c \in Callers : RequestFlushCall(c)
    \/ \E c \in Callers : RequestFlushGranted(c)
    \/ StreamFlushOne(0)
    \/ \E k \in StreamIds, ok \in BOOLEAN : StreamWriteDone(k, ok)

SpecRequest == Init /\ [][NextRequest]_vars

\* The three kinds of memtable list of one column family side by side:
\* writes, seals by the flushers, flushes that complete or fail, clear and
\* truncate. The replay positions of the writes play no part in the lists:
\* the writes carry the zero position.
NextLists ==
    \/ ApplyAccepted(ZeroRp)
    \/ ReactiveFlush
    \/ \E k \in MemtableIds, ok \in BOOLEAN : WriteDone(k, ok)
    \/ \E k \in MemtableIds : Retry(k)
    \/ \E k \in MemtableIds : CacheDone(k, TRUE)
    \/ \E k \in MemtableIds : Post(k)
    \/ \E p \in Plans, fragmented \in BOOLEAN : StreamApply(p, 1, fragmented)
    \/ \E p \in 0..MaxPlans : StreamFlushOne(p)
    \/ \E k \in StreamIds, ok \in BOOLEAN : StreamWriteDone(k, ok)
    \/ Clear
    \/ \E g0 \in Generations : DiscardSstables(g0)

SpecLists == Init /\ [][NextLists]_vars

\* Cell reconciliation: compare_atomic_cell_for_merge applied to drawn cells.
NextCell ==
    \/ CompareCells
    \/ ReconcileCells

InitCell == InitStorage /\ InitStreaming /\ InitCells /\ InitExt

SpecCell == InitCell /\ [][NextCell]_vars

\* populate of one sstable directory on one shard.
NextPopulate ==
    \/ \E f \in PopGens \X Components : Probe(f)
    \/ PostScan

InitPop == InitStorage /\ InitNoCells /\ InitStreaming /\ InitPopulate /\ InitNoSnapshot
               /\ InitDatabase /\ InitRunning /\ InitFlusher /\ InitMore

SpecPopulate == InitPop /\ [][NextPopulate]_vars

\* One snapshot taken on all shards.
NextSnapshot ==
    \/ \E s \in Shards, files \in SUBSET FileNames, ok \in BOOLEAN : SnapshotCall(s, files, ok)
    \/ \E s \in Shards : Register(s)
    \/ SealStart
    \/ \E ok \in BOOLEAN : SealDone(ok)
    \/ \E s \in Shards : SnapshotComplete(s)

InitSnap == InitStorage /\ InitNoCells /\ InitStreaming /\ InitNoPopulate /\ InitSnapshot
               /\ InitDatabase /\ InitRunning /\ InitFlusher /\ InitMore

SpecSnapshot == InitSnap /\ [][NextSnapshot]_vars

\* Writes through database::apply on a column family with a commit log,
\* while the memory-driven flusher seals memtables and the column family
\* may be dropped.
NextApply ==
    \/ \E w \in DbWrites : DbApplyCall(w)
    \/ \E w \in DbWrites : AddEntryDone(w)
    \/ \E w \in DbWrites : ApplyInMemory(w)
    \/ DropColumnFamily
    \/ ReactiveFlush
    \/ \E k \in MemtableIds : WriteDone(k, TRUE)
    \/ \E k \in MemtableIds : CacheDone(k, TRUE)
    \/ \E k \in MemtableIds : Post(k)

SpecApply == Init /\ [][NextApply]_vars

\* Reads of the column family while memtables are flushed: a reader takes
\* the sstable set as it is when the read starts. The replay positions of
\* the writes play no part in it: the writes carry the zero position.
NextRead ==
    \/ ApplyAccepted(ZeroRp)
    \/ ReactiveFlush
    \/ \E k \in MemtableIds, ok \in BOOLEAN : WriteDone(k, ok)
    \/ \E k \in MemtableIds : Retry(k)
    \/ \E k \in MemtableIds, ok \in BOOLEAN : CacheDone(k, ok)
    \/ \E k \in MemtableIds : Post(k)
    \/ \E r \in Readers : ReaderOpen(r)
    \/ \E r \in Readers : ReaderClose(r)

SpecRead == Init /\ [][NextRead]_vars

\* Writes to system tables next to writes to user tables and streamed
\* writes, through the dirty-memory gate.
NextSys ==
    \/ \E w \in Writes, kind \in Groups : WriteArrive(w, kind)
    \/ \E g \in Groups, n \in 1..(HardLimit + 1) : FlushRelease(g, n)
    \/ \E g \in Groups : RunBlocked(g)

SpecSys == Init /\ [][NextSys]_vars

\* column_family::stop() while writes, flushes (memory-driven, with failing
\* sstable writes), streaming flushes and compactions go on. The compaction
\* manager starts no compaction of a column family it was told to remove,
\* and a streaming seal that finds its gate closed is left out.
NextStop ==
    \/ StopCall
    \/ stop_pc = "flushing" /\ RequestFlushCall(1)
    \/ ~StopCalling /\ StopStep
    \/ ~StopCalling /\ ApplyAccepted(ZeroRp)
    \/ ~StopCalling /\ ReactiveFlush
    \/ ~StopCalling /\ RequestGranted
    \/ ~StopCalling /\ \E k \in MemtableIds, ok \in BOOLEAN : WriteDone(k, ok)
    \/ ~StopCalling /\ \E k \in MemtableIds : Retry(k)
    \/ ~StopCalling /\ \E k \in MemtableIds : CacheDone(k, TRUE)
    \/ ~StopCalling /\ \E k \in MemtableIds : Post(k)
    \/ ~StopCalling /\ \E p \in Plans : StreamApply(p, 1, FALSE)
    \/ ~StopCalling /\ ~closed.streaming_flush_gate /\ StreamFlushOne(0)
    \/ RequestFlushGranted(1)
    \/ ~StopCalling /\ \E k \in StreamIds, ok \in BOOLEAN : StreamWriteDone(k, ok)
    \/ stop_pc \in {"none", "flushing"} /\ ~StopCalling
          /\ \E j \in Compactions, input \in SUBSET CurrentSstables : CompactStart(j, input)
    \/ ~StopCalling /\ \E j \in Compactions, wrote \in BOOLEAN : CompactFinish(j, wrote)
    \/ ~StopCalling /\ \E j \in Compactions, outcome \in DeleteOutcomes : DeleteDone(j, outcome)

SpecStop == Init /\ [][NextStop]_vars

\* The memory-driven flusher of the regular manager next to explicit
\* flushes: writes and streamed writes fill the memtables of the two lists,
\* callers of column_family::flush() queue for the permit, flushes complete.
NextFlusher ==
    \/ ApplyAccepted(ZeroRp)
    \/ \E p \in Plans : StreamApply(p, 1, FALSE)
    \/ \E c \in Callers : FlushCall(c)
    \/ (permitWaiters # <<>> /\ Head(permitWaiters) # 0) /\ RequestGranted
    \/ FlusherWake
    \/ FlusherGranted
    \/ FlusherPermitBack
    \/ Shutdown
    \/ FlusherDrained
    \/ ShutdownDone
    \/ \E k \in MemtableIds : WriteDone(k, TRUE)
    \/ \E k \in MemtableIds : CacheDone(k, TRUE)
    \/ \E k \in MemtableIds : Post(k)
    \/ \E c \in Callers : FlushResume(c)
    \/ \E k \in StreamIds : StreamWriteDone(k, TRUE)

SpecFlusher == Init /\ [][NextFlusher]_vars

\* ------------------------------------------- filter_sstable_for_reader
\* Clustering keys of two components; 0 stands for a bound that is absent.
CkValues == 1..MaxCk
ClusteringKeys == CkValues \X CkValues
CkPrefixes == {<<>>} \cup {<<a>> : a \in CkValues} \cup ClusteringKeys

\* The candidate sstables of a single-key read: the rows each holds of the
\* partition (here one row, live or a tombstone, with its timestamp) and the
\* answer of its bloom filter for the key.
CandidateSstables ==
    [rows : {{[ck |-> ck, ts |-> ts, live |-> l]} :
                 ck \in ClusteringKeys, ts \in 1..MaxFilterTs, l \in BOOLEAN},
     filter_has_key : BOOLEAN]

\* -1, 0 or 1 as p is before, equal to or after q on the components both have.
RECURSIVE tri_compare(_, _, _)
tri_compare(p, q, i) ==
    IF i > Len(p) \/ i > Len(q) THEN 0
    ELSE IF p[i] < q[i] THEN 0 - 1
    ELSE IF p[i] > q[i] THEN 1
    ELSE tri_compare(p, q, i + 1)

\* The clustering ranges a request can name: bounds are prefixes of a
\* clustering key, inclusive or not; an empty prefix is a missing bound.
ClusteringRanges ==
    {r \in [start : [prefix : CkPrefixes, inclusive : BOOLEAN],
            end : [prefix : CkPrefixes, inclusive : BOOLEAN]] :
        /\ r.start.prefix = <<>> => r.start.inclusive
        /\ r.end.prefix = <<>> => r.end.inclusive
        /\ (r.start.prefix # <<>> /\ r.end.prefix # <<>>) =>
              tri_compare(r.start.prefix, r.end.prefix, 1) <= 0}

\* nonwrapping_range::is_full() of a requested range.
is_full(r) == r.start.prefix = <<>> /\ r.end.prefix = <<>>

\* The row with clustering key ck is in the requested range r.
in_range(ck, r) ==
    /\ \/ r.start.prefix = <<>>
       \/ tri_compare(ck, r.start.prefix, 1) > 0
       \/ tri_compare(ck, r.start.prefix, 1) = 0 /\ r.start.inclusive
    /\ \/ r.end.prefix = <<>>
       \/ tri_compare(ck, r.end.prefix, 1) < 0
       \/ tri_compare(ck, r.end.prefix, 1) = 0 /\ r.end.inclusive

\* The leading components on which the two bounds agree, counted from i.
RECURSIVE singular_count(_, _, _)
singular_count(start, end, i) ==
    IF i <= Len(start) /\ i <= Len(end) /\ start[i] = end[i]
    THEN singular_count(start, end, i + 1)
    ELSE i - 1

\* ranges_for_clustering_key_filter for one requested range: a range per
\* component. The leading singular components become [v, v]; the first
\* component that is not singular gets the inclusiveness of the bounds of
\* r; the components after it are dropped.
composite_ranges(r) ==
    LET start == r.start.prefix
        end   == r.end.prefix
        n     == singular_count(start, end, 1)
        peeled == [i \in 1..n |-> [lo |-> start[i], lo_incl |-> TRUE,
                                   hi |-> end[i], hi_incl |-> TRUE]]
        tail == IF n < Len(start) /\ n < Len(end)
                THEN <<[lo |-> start[n + 1], lo_incl |-> r.start.inclusive,
                        hi |-> end[n + 1], hi_incl |-> r.end.inclusive]>>
                ELSE IF n < Len(start)
                THEN <<[lo |-> start[n + 1], lo_incl |-> r.start.inclusive,
                        hi |-> 0, hi_incl |-> FALSE]>>
                ELSE IF n < Len(end)
                THEN <<[lo |-> 0, lo_incl |-> FALSE,
                        hi |-> end[n + 1], hi_incl |-> r.end.inclusive]>>
                ELSE <<>>
    IN  IF is_full(r)
        THEN <<[lo |-> 0, lo_incl |-> FALSE, hi |-> 0, hi_incl |-> FALSE]>>
        ELSE peeled \o tail

\* ranges_for_clustering_key_filter(schema, ck_filtering_all_ranges).
ranges_for_clustering_key_filter(all_ranges) ==
    [i \in 1..Len(all_ranges) |-> composite_ranges(all_ranges[i])]

\* sst.clustering_components_ranges(): the least and the greatest value of
\* each component over the rows of the sstable.
clustering_components_ranges(sst) ==
    [i \in 1..2 |-> [min |-> Min({row.ck[i] : row \in sst.rows}),
                     max |-> Max({row.ck[i] : row \in sst.rows})]]

\* The statistics of an sstable.
min_timestamp_of(sst) == Min({row.ts : row \in sst.rows})
max_timestamp_of(sst) == Max({row.ts : row \in sst.rows})
has_tombstone_histogram(sst) == \E row \in sst.rows : ~row.live

\* nonwrapping_range::overlaps of the range of a component of the request
\* with the range [min, max] of that component in an sstable.
overlaps(cr, m) ==
    /\ cr.lo = 0 \/ cr.lo < m.max \/ (cr.lo = m.max /\ cr.lo_incl)
    /\ cr.hi = 0 \/ cr.hi > m.min \/ (cr.hi = m.min /\ cr.hi_incl)

\* contains_rows(sst, schema, ranges) for a schema with a clustering key
\* and an sstable with clustering metadata.
contains_rows(sst, ranges) ==
    \E j \in 1..Len(ranges) :
        \A i \in 1..Min({Len(ranges[j]), 2}) :
            \/ ranges[j][i].lo = 0 /\ ranges[j][i].hi = 0
            \/ overlaps(ranges[j][i], clustering_components_ranges(sst)[i])

\* numeric_limits<int64_t>::max(), above every timestamp.
timestamp_limit == MaxFilterTs + 1

\* filter_sstable_for_reader(ssts, cf, schema, key, slice) for a schema
\* with a clustering key and a strategy that uses the clustering filter:
\* the positions in ssts of the sstables it returns.
filter_sstable_for_reader(ssts, sl) ==
    LET positive == {i \in 1..Len(ssts) : ssts[i].filter_has_key}
        ranges == ranges_for_clustering_key_filter(sl)
        has_clustering_key == {i \in positive : contains_rows(ssts[i], ranges)}
        min_timestamp == Min({timestamp_limit}
                               \cup {min_timestamp_of(ssts[i]) : i \in has_clustering_key})
        has_relevant_tombstone ==
            {i \in positive \ has_clustering_key :
                /\ max_timestamp_of(ssts[i]) > min_timestamp
                /\ has_tombstone_histogram(ssts[i])}
    IN  IF Len(sl) = 1 /\ is_full(sl[1]) THEN positive
        ELSE IF ranges = <<>> THEN {}
        ELSE has_clustering_key \cup has_relevant_tombstone

\* The requests the reads are made with: no range, one range, or a range
\* and a second one that names one row.
Slices ==
    {<<>>} \cup {<<r>> : r \in ClusteringRanges}
        \cup {<<r, [start |-> [prefix |-> <<a, a>>, inclusive |-> TRUE],
                   end |-> [prefix |-> <<a, a>>, inclusive |-> TRUE]]>> :
                 r \in ClusteringRanges, a \in CkValues}

\* An sstable of the column family holds data of the partition that is read.
FilterCandidate(sst) ==
    /\ filter_pc \in {"off", "candidates"}
    /\ Len(candidates) < MaxCandidates
    /\ candidates' = Append(candidates, sst)
    /\ filter_pc' = "candidates"
    /\ UNCHANGED <<coreVars, offFilter, slice, surviving>>

\* make_sstable_reader for a single key: filter_sstable_for_reader runs on
\* the sstables the set selected.
FilterRead(sl) ==
    /\ filter_pc = "candidates"
    /\ slice' = sl
    /\ surviving' = filter_sstable_for_reader(candidates, sl)
    /\ filter_pc' = "filtered"
    /\ UNCHANGED <<coreVars, offFilter, candidates>>

\* Single-key reads of sstables with clustering metadata.
NextFilter ==
    \/ \E sst \in CandidateSstables : FilterCandidate(sst)
    \/ \E sl \in Slices : FilterRead(sl)

SpecFilter == Init /\ [][NextFilter]_vars

\* --------------------------------- the presence checker of update_cache
PartitionKeys == 1..MaxKeys

\* The partition mutation m belongs to.
partition_key(m) == 1 + (((m - 1) \div 2) % MaxKeys)

\* sstable::filter_has_key: the bloom filter of sstable g reports the key
\* of every partition the sstable holds.
filter_has_key(g, key) == \E m \in sstData[g] : partition_key(m) = key

\* A presence checker that does not leave out the sstable just flushed.
make_partition_presence_checker_all(exclude_sstable, key) ==
    IF \E g \in CurrentSstables : filter_has_key(g, key)
    THEN "maybe_exists" ELSE "definitely_doesnt_exist"

\* The function column_family::make_partition_presence_checker returns,
\* called with key: it goes through *_sstables->all() as _sstables is at
\* the call.
make_partition_presence_checker(exclude_sstable, key) ==
    IF \E g \in CurrentSstables \ {exclude_sstable} : filter_has_key(g, key)
    THEN "maybe_exists" ELSE "definitely_doesnt_exist"

\* _cache.update(m, checker), under way for the flush of memtable k, asks
\* the presence checker about a key.
PresenceCheck(k, key) ==
    /\ ~crashed
    /\ flushes[k].pc = "cache"
    /\ presence' = [mt |-> k, key |-> key,
                    answer |-> make_partition_presence_checker(flushes[k].gen, key)]
    /\ UNCHANGED <<coreVars, popVars, snapVars, dbVars, stopVars, flusherVars, filterVars,
                   ringVars, transferVars>>

\* Flushes of one column family with the cache updates that follow them.
NextPresence ==
    \/ ApplyAccepted(ZeroRp)
    \/ ReactiveFlush
    \/ \E k \in MemtableIds, ok \in BOOLEAN : WriteDone(k, ok)
    \/ \E k \in MemtableIds : Retry(k)
    \/ \E k \in MemtableIds, key \in PartitionKeys : PresenceCheck(k, key)
    \/ \E k \in MemtableIds, ok \in BOOLEAN : CacheDone(k, ok)
    \/ \E k \in MemtableIds : Post(k)

SpecPresence == Init /\ [][NextPresence]_vars

\* Delayed seals of the shared streaming list: plans stream mutations and
\* end with flush_streaming_mutations, the timer fires, the flusher of the
\* streaming manager seals at once, writes complete or fail, and the
\* column family is cleared by a truncate.
NextDelayed ==
    \/ \E p \in Plans, R \in Ranges : StreamApply(p, R, FALSE)
    \/ \E p \in Plans, ranges \in SUBSET Ranges : FlushStreamingCall(p, ranges)
    \/ TimerFires
    \/ StreamFlushOne(0)
    \/ \E k \in StreamIds, ok \in BOOLEAN : StreamWriteDone(k, ok)
    \/ \E p \in Plans : FlushStreamingFinish(p)
    \/ Clear

SpecDelayed == Init /\ [][NextDelayed]_vars

\* ------------------------------------------------- the ranges of an endpoint
Tokens == 1..MaxTokens
Endpoints == 1..MaxEndpoints

\* What calculate_natural_endpoints can return for a token: the endpoints
\* that replicate it, in order, none twice.
EndpointLists ==
    {<<>>} \cup {<<a>> : a \in Endpoints}
           \cup {<<a, b>> : <<a, b>> \in {ab \in Endpoints \X Endpoints : ab[1] # ab[2]}}

\* The tokens of S in ascending order.
sorted_tokens_of(S) ==
    CHOOSE f \in [1..Cardinality(S) -> S] :
        \A i, j \in 1..Cardinality(S) : i < j => f[i] < f[j]

\* A nonwrapping_range<token>: each bound is optional, <<>> being nullopt;
\* the start is exclusive and the end inclusive.
token_range(start, end) == [start |-> start, end |-> end]

\* insert_token_range_to_sorted_container_while_unwrapping: (prev_tok, tok]
\* is appended when it does not wrap; else (prev_tok, +inf) is appended and
\* (-inf, tok] is put in front.
insert_token_range_to_sorted_container_while_unwrapping(prev, tok, v) ==
    IF prev < tok
    THEN Append(v, token_range(<<prev>>, <<tok>>))
    ELSE <<token_range(<<>>, <<tok>>)>> \o Append(v, token_range(<<prev>>, <<>>))

\* get_ranges(ep) or get_primary_ranges(ep) is called on a ring of the
\* tokens S: prev_tok starts as the last token of the ring.
GetRangesCall(ep, primary, S) ==
    /\ ranges_call.pc \in {"idle", "done"}
    /\ S # {}
    /\ sorted_tokens' = sorted_tokens_of(S)
    /\ ranges_call' = [pc |-> "loop", ep |-> ep, primary |-> primary, idx |-> 1,
                       prev_tok |-> Max(S), owned |-> {}]
    /\ ret' = <<>>
    /\ UNCHANGED offRing

\* One turn of the loop over the sorted tokens, eps being what
\* calculate_natural_endpoints returns for the token: get_ranges takes the
\* token when ep is among eps, get_primary_ranges when ep is the first.
GetRangesStep(eps) ==
    /\ ranges_call.pc = "loop"
    /\ ranges_call.idx <= Len(sorted_tokens)
    /\ LET tok == sorted_tokens[ranges_call.idx]
           takes == IF ranges_call.primary
                    THEN Len(eps) > 0 /\ eps[1] = ranges_call.ep
                    ELSE ranges_call.ep \in Range(eps)
       IN  /\ ret' = IF takes
                     THEN insert_token_range_to_sorted_container_while_unwrapping(
                              ranges_call.prev_tok, tok, ret)
                     ELSE ret
           /\ ranges_call' = [ranges_call EXCEPT
                  !.idx = @ + 1, !.prev_tok = tok,
                  !.owned = IF takes THEN @ \cup {tok} ELSE @]
    /\ UNCHANGED <<sorted_tokens, offRing>>

\* The loop has ended and ret is returned.
GetRangesReturn ==
    /\ ranges_call.pc = "loop"
    /\ ranges_call.idx > Len(sorted_tokens)
    /\ ranges_call' = [ranges_call EXCEPT !.pc = "done"]
    /\ UNCHANGED <<sorted_tokens, ret, offRing>>

NextRanges ==
    \/ \E ep \in Endpoints, primary \in BOOLEAN, S \in SUBSET Tokens :
           GetRangesCall(ep, primary, S)
    \/ \E eps \in EndpointLists : GetRangesStep(eps)
    \/ GetRangesReturn

SpecRanges == Init /\ [][NextRanges]_vars

\* ------------------------------------------------------ a stream transfer task
\* stream_transfer_task::start: a send_info is made on every shard, ok being
\* that none of them threw; then send_mutations runs on the shards one after
\* another, starting with the first.
TransferStart(ok) ==
    /\ transfer.pc = "idle"
    /\ IF ok
       THEN /\ send_infos' = [s \in TShards |->
                   [NoSendInfo EXCEPT !.state = "live",
                                      !.loop = IF s = 1 THEN "reading" ELSE "off"]]
            /\ transfer' = [transfer EXCEPT !.pc = "sending", !.shard = 1]
       ELSE /\ transfer' = [transfer EXCEPT !.pc = "error", !.on_error = @ + 1]
            /\ UNCHANGED send_infos
    /\ UNCHANGED <<inflight, limiter, offTransfer>>

\* send_mutations on shard s: the reader gives one more fragment, which is
\* counted in mutations_nr before do_send_mutations waits for the limiter.
ReadNext(s) ==
    /\ ~transfer.crashed
    /\ send_infos[s].loop = "reading"
    /\ send_infos[s].mutations_nr < MaxSends
    /\ send_infos' = [send_infos EXCEPT ![s].mutations_nr = @ + 1, ![s].loop = "limiter"]
    /\ UNCHANGED <<transfer, inflight, limiter, offTransfer>>

\* do_send_mutations: a unit of the limiter is taken and STREAM_MUTATION is
\* sent; the future of the message is not waited for, the loop goes on.
LimiterGranted(s) ==
    /\ ~transfer.crashed
    /\ send_infos[s].loop = "limiter"
    /\ limiter[s] > 0
    /\ limiter' = [limiter EXCEPT ![s] = @ - 1]
    /\ inflight' = [inflight EXCEPT ![s] = @ + 1]
    /\ send_infos' = [send_infos EXCEPT ![s].loop = "reading"]
    /\ UNCHANGED <<transfer, offTransfer>>

\* The reader is exhausted or the column family is gone: send_mutations
\* calls mutations_done.wait(mutations_nr).
ReadEnd(s) ==
    /\ ~transfer.crashed
    /\ send_infos[s].loop = "reading"
    /\ send_infos' = [send_infos EXCEPT ![s].loop = "waiting"]
    /\ UNCHANGED <<transfer, inflight, limiter, offTransfer>>

\* mutations_done.wait(mutations_nr) succeeds when the semaphore holds
\* mutations_nr units; broken() leaves it with none.
wait_succeeds(si) == si.done >= si.mutations_nr

\* The wait gives its answer: the units are there, or the semaphore is
\* broken.
wait_ready(si) == wait_succeeds(si) \/ si.broken

\* The wait of send_mutations on shard s is answered: do_with destroys the
\* send_info and the outcome goes back to the shard of the task.
SendMutationsReturn(s) ==
    /\ ~transfer.crashed
    /\ send_infos[s].loop = "waiting"
    /\ wait_ready(send_infos[s])
    /\ send_infos' = [send_infos EXCEPT ![s].state = "freed", ![s].loop = "ended"]
    /\ transfer' = [transfer EXCEPT !.pc = IF wait_succeeds(send_infos[s])
                                           THEN "sent" ELSE "failed"]
    /\ UNCHANGED <<inflight, limiter, offTransfer>>

\* start goes on after send_mutations of a shard: on success the next shard
\* starts, or STREAM_MUTATION_DONE is sent after the last one; on failure
\* the last handler calls on_error.
TransferContinue ==
    /\ ~transfer.crashed
    /\ transfer.pc \in {"sent", "failed"}
    /\ IF transfer.pc = "failed"
       THEN /\ transfer' = [transfer EXCEPT !.pc = "error", !.on_error = @ + 1]
            /\ UNCHANGED send_infos
       ELSE IF transfer.shard < MaxTShards
       THEN /\ transfer' = [transfer EXCEPT !.pc = "sending", !.shard = @ + 1]
            /\ send_infos' = [send_infos EXCEPT ![transfer.shard + 1].loop = "reading"]
       ELSE /\ transfer' = [transfer EXCEPT !.pc = "done_sent"]
            /\ UNCHANGED send_infos
    /\ UNCHANGED <<inflight, limiter, offTransfer>>

\* The answer to a STREAM_MUTATION of shard s comes, ok or not. Its
\* continuations refer to the send_info by reference: on a live one an
\* acknowledgement signals mutations_done and a failure breaks it; on a
\* destroyed one the access is undefined, the process goes on or crashes.
\* A process that goes on returns the unit to the limiter.
Reply(s, ok, crash) ==
    /\ ~transfer.crashed
    /\ inflight[s] > 0
    /\ IF send_infos[s].state = "live"
       THEN /\ ~crash
            /\ send_infos' = [send_infos EXCEPT ![s] =
                   IF ok
                   THEN [@ EXCEPT !.done = IF send_infos[s].broken THEN 0 ELSE @ + 1]
                   ELSE [@ EXCEPT !.done = 0, !.broken = TRUE, !.error_logged = TRUE]]
       ELSE UNCHANGED send_infos
    /\ IF crash
       THEN /\ transfer' = [transfer EXCEPT !.crashed = TRUE,
                                           !.send_failed = @ \/ ~ok]
            /\ UNCHANGED <<inflight, limiter>>
       ELSE /\ transfer' = [transfer EXCEPT !.send_failed = @ \/ ~ok]
            /\ inflight' = [inflight EXCEPT ![s] = @ - 1]
            /\ limiter' = [limiter EXCEPT ![s] = @ + 1]
    /\ UNCHANGED offTransfer

\* The answer to STREAM_MUTATION_DONE comes: transfer_task_completed on an
\* acknowledgement, on_error on a failure.
DoneReply(ok) ==
    /\ ~transfer.crashed
    /\ transfer.pc = "done_sent"
    /\ transfer' = IF ok
                   THEN [transfer EXCEPT !.pc = "completed", !.completed = @ + 1]
                   ELSE [transfer EXCEPT !.pc = "error", !.on_error = @ + 1,
                                         !.done_failed = TRUE]
    /\ UNCHANGED <<send_infos, inflight, limiter, offTransfer>>

NextTransfer ==
    \/ \E ok \in BOOLEAN : TransferStart(ok)
    \/ \E s \in TShards : ReadNext(s)
    \/ \E s \in TShards : LimiterGranted(s)
    \/ \E s \in TShards : ReadEnd(s)
    \/ \E s \in TShards : SendMutationsReturn(s)
    \/ TransferContinue
    \/ \E s \in TShards, ok \in BOOLEAN, crash \in BOOLEAN : Reply(s, ok, crash)
    \/ \E ok \in BOOLEAN : DoneReply(ok)

SpecTransfer == Init /\ [][NextTransfer]_vars

\* Snapshots whose steps are not put off for ever: a request sent to the
\* nominated shard is run there, a wait whose units are there resolves, and
\* the write of the manifest ends, well or not. Nothing makes a shard call
\* snapshot().
FairSnapshot ==
    /\ \A s \in Shards : WF_vars(Register(s))
    /\ WF_vars(SealStart)
    /\ WF_vars(\E ok \in BOOLEAN : SealDone(ok))
    /\ \A s \in Shards : WF_vars(SnapshotComplete(s))

SpecSnapshotLive == InitSnap /\ [][NextSnapshot]_vars /\ FairSnapshot

\* ================================================================= claims
\* Sealed memtables: those handed to the flush queue.
Sealed == {k \in MemtableIds : flushes[k].pc # "none"}

\* The sstable of sealed memtable k has been written and added to the set
\* (where it still is, unless a truncation took it out since).
Written(k) ==
    /\ flushes[k].pc \in {"cache", "flushed", "done"}
    /\ sstData[flushes[k].gen] = mt[k].data
    /\ flushes[k].gen \in CurrentSstables \cup truncated

\* This step runs the post callback of memtable k.
PostStep(k) == flushes[k].pc = "flushed" /\ flushes'[k].pc = "done"

\* This step invokes discard_completed_segments for memtable k.
DiscardStep(k) ==
    /\ Len(discards') = Len(discards) + 1
    /\ discards'[Len(discards')].mt = k

\* The discard_completed_segments calls made for memtable k.
DiscardsFor(k) == {i \in 1..Len(discards) : discards[i].mt = k}

\* C1: the post callbacks (commit-log discards) run in increasing order of
\* replay position whatever the order in which the flush work completes: a
\* post callback runs only when the post callbacks of all sealed memtables
\* with a lower position have finished, and the positions handed to the
\* commit log never go down.
C1_PostsInRpOrder ==
    [][\A k \in MemtableIds : PostStep(k) =>
          /\ \A j \in Sealed : mt[j].rp < mt[k].rp => flushes[j].pc = "done"
          /\ \A i, j \in 1..Len(discards') :
                i < j => discards'[i].rp <= discards'[j].rp]_vars

\* The work of the later memtable completed first, its post was held back,
\* and the discards came out in the order of the positions.
C1_Witness ==
    /\ flushes[1].pc = "done" /\ flushes[2].pc = "done"
    /\ flushes[2].held
    /\ Len(discards) = 2
    /\ discards[1].rp < discards[2].rp

\* C2, as claimed: whenever discard_completed_segments(cf, r) is invoked,
\* every memtable sealed with a position <= r has been written to an
\* sstable of the set.
C2_Original ==
    [][\A k \in MemtableIds : DiscardStep(k) =>
          \A j \in Sealed :
              mt[j].rp <= discards'[Len(discards')].rp => Written(j)]_vars

\* C2, amended: whenever discard_completed_segments(cf, r) is invoked with r
\* other than the zero position, every memtable sealed with a position <= r
\* has been written to an sstable of the set; a discard with the zero
\* position follows the write of its own memtable (another memtable sealed
\* with the zero position may still be in flight).
C2_DiscardAfterDurable ==
    [][\A k \in MemtableIds : DiscardStep(k) =>
          LET r == discards'[Len(discards')].rp
          IN  \A j \in Sealed :
                  (mt[j].rp <= r /\ (r # ZeroRp \/ j = k)) => Written(j)]_vars

\* A discard was invoked for the first memtable, whose sstable is in the
\* set, while a memtable with a higher position is still being written.
C2_Witness ==
    /\ Len(discards) = 1
    /\ discards[1].rp # ZeroRp
    /\ flushes[1].gen \in CurrentSstables
    /\ flushes[2].pc \in {"writing", "sleeping"}
    /\ mt[2].rp > discards[1].rp

\* C3: discard_completed_segments is invoked for a sealed memtable exactly
\* once, when its flush completes and not before, with the memtable's own
\* replay position, and only after the memtable's sstable write succeeded.
C3_DiscardOncePerMemtable ==
    \A k \in MemtableIds :
        /\ Cardinality(DiscardsFor(k)) = IF flushes[k].pc = "done" THEN 1 ELSE 0
        /\ \A i \in DiscardsFor(k) :
              /\ discards[i].rp = mt[k].rp
              /\ mt[k].data # {}
              /\ sstData[flushes[k].gen] = mt[k].data

\* Two memtables were flushed, one of them after a failed write, the second
\* sealed while the first was queued, and each got its discard.
C3_Witness ==
    /\ flushes[1].pc = "done" /\ flushes[2].pc = "done"
    /\ generation = 3
    /\ DiscardsFor(1) # {} /\ DiscardsFor(2) # {}
    /\ mt[1].rp # mt[2].rp

\* C4: every mutation accepted by apply (and not dropped by clear or
\* truncate) is in a source make_reader consults: a memtable of the list,
\* or the sstable set (which the cache reads through).
C4_ReadsMissNothing ==
    live \subseteq Readable(memtables, CurrentSstables)

\* A mutation has left the memtable list and is read from the sstable set
\* while another flush is in flight.
C4_Witness ==
    /\ \E m \in live : m \notin UNION {mt[k].data : k \in Range(memtables)}
    /\ \E k \in MemtableIds : flushes[k].pc \in {"writing", "sleeping", "cache"}

\* C5: when a call of column_family::flush() has completed, every mutation
\* applied before the call is in an sstable of the sstable set, and
\* discard_completed_segments has been invoked with a position not below
\* that of any of those mutations; this with flushes of other callers and of
\* the memory-driven flusher in flight or coalesced.
C5_FlushMakesDurable ==
    \A c \in Callers : callers[c].pc = "done" =>
        /\ (1..callers[c].seen) \subseteq DataOf(CurrentSstables)
        /\ callers[c].seen > 0 =>
              \E i \in 1..Len(discards) : discards[i].rp >= callers[c].seenRp

\* Two callers were served by one coalesced request, a later memtable is
\* still being flushed, and both calls have completed.
C5_Witness ==
    /\ callers[1].pc = "done" /\ callers[2].pc = "done"
    /\ callers[1].seen > 0
    /\ reqs[1].pc = "ok" /\ reqs[2].pc = "none"
    /\ \E k \in MemtableIds : flushes[k].pc = "writing"

\* C6: _highest_flushed_rp never decreases.
C6_HighestFlushedRpMonotone ==
    [][highest_flushed_rp' >= highest_flushed_rp]_vars

\* The position was raised by a seal, and a clear and a truncation followed.
C6_Witness ==
    /\ highest_flushed_rp # ZeroRp
    /\ flushes[1].pc = "done"
    /\ flushes[2].pc = "none"
    /\ memtables = <<3>>
    /\ truncated # {}

\* C7: apply(m, schema, rp) with rp below _highest_flushed_rp throws and
\* leaves the memtables as they were; otherwise the mutation is written into
\* the active memtable.
C7_ApplyValidatesRp ==
    [][\A rp \in Rps : Apply(rp) =>
          IF rp < highest_flushed_rp
          THEN threw' /\ mt' = mt /\ memtables' = memtables
          ELSE /\ ~threw'
               /\ (nmut + 1) \in mt'[back].data
               /\ mt'[back].rp >= rp]_vars

\* An apply below the highest flushed position was refused.
C7_Witness ==
    /\ threw
    /\ highest_flushed_rp # ZeroRp
    /\ nmut > 0

\* C8: a reader sees, for as long as it lives, the sstables that were in
\* the set object when it took its reference: add_sstable, rebuild_sstable_list,
\* discard_sstables and set_compaction_strategy never change a set object a
\* reader holds.
C8_ReaderSeesSameSet ==
    \A r \in Readers : readers[r].ref # 0 =>
        /\ sstSets[readers[r].ref].used
        /\ sstSets[readers[r].ref].elems = readers[r].seen

\* A reader still holds the set it opened while a flush, a compaction and a
\* truncation have replaced every sstable of it.
C8_Witness ==
    /\ readers[1].ref # 0
    /\ readers[1].ref # sstables
    /\ readers[1].seen # {}
    /\ readers[1].seen \cap CurrentSstables = {}
    /\ truncated # {}
    /\ \E j \in Compactions : compactions[j].pc = "deleting"

\* C9: an sstable that a compaction took out of the set is in the
\* compacted-but-not-deleted list until its atomic delete has succeeded.
C9_CompactedKeptUntilDeleted ==
    undeleted \subseteq compacted_but_not_deleted

\* The writes that are running this step.
Executing(w) == writes[w].pc # "applied" /\ writes'[w].pc = "applied"

\* C10: the apply of a write runs only while the region group it is charged
\* to is not above its limit; a write that arrives while its group is held
\* back is blocked and runs only after a flush has released memory and
\* execution is permitted again; and every blocked write runs in the end.
C10_WritesGatedByDirtyMemory ==
    /\ [][\A w \in Writes : Executing(w) =>
             /\ ~under_pressure(dirty, writes'[w].kind)
             /\ writes[w].pc = "none" => execution_permitted(dirty, writes'[w].kind)
             /\ (writes[w].pc = "blocked" /\ writes[w].above) => writes[w].relieved]_vars
    /\ [][\A w \in Writes, kind \in Groups :
             (WriteArrive(w, kind) /\ ~execution_permitted(dirty, kind))
                 => writes'[w].pc = "blocked"]_vars
    /\ \A w \in Writes : (writes[w].pc = "blocked") ~> (writes[w].pc = "applied")

\* A write that arrived above the limit was blocked, a flush released
\* memory, and the write has run.
C10_Witness ==
    \E w \in Writes :
        /\ writes[w].pc = "applied"
        /\ writes[w].above
        /\ writes[w].relieved

\* The cells compared have the same timestamp.
SameTimestamp == left.timestamp = right.timestamp

\* Byte-lexicographic order of values, bytes taken as unsigned numbers: v is
\* larger than w when it is larger at the first byte where they differ, or
\* w is a proper prefix of v.
LexGreater(v, w) ==
    \E i \in 1..Len(v) :
        /\ \A j \in 1..(i - 1) : j <= Len(w) /\ v[j] = w[j]
        /\ (i > Len(w) \/ v[i] > w[i])

\* Order of deletion times taken as unsigned 32-bit seconds: a negative
\* count wraps around to above every count that is not negative.
UnsignedGreater(d, e) ==
    IF (d < 0) = (e < 0) THEN d > e ELSE d < 0

\* C12: for every pair of cells compare_atomic_cell_for_merge decides as
\* specified: the higher timestamp wins; at equal timestamp a deleted cell
\* beats a live one; two live cells with different values are ordered by
\* byte-lexicographic unsigned value, larger wins; two deleted cells with
\* different deletion times are ordered by deletion time as unsigned 32-bit
\* seconds, larger wins.
C12_ReconciliationOrder ==
    cellpc \in {"compared", "merged"} =>
        /\ left.timestamp # right.timestamp =>
              /\ cmp.lr # 0
              /\ (cmp.lr > 0) = (left.timestamp > right.timestamp)
        /\ (SameTimestamp /\ left.live # right.live) =>
              /\ cmp.lr # 0
              /\ (cmp.lr > 0) = ~left.live
        /\ (SameTimestamp /\ left.live /\ right.live /\ left.value # right.value) =>
              /\ cmp.lr # 0
              /\ (cmp.lr > 0) = LexGreater(left.value, right.value)
        /\ (SameTimestamp /\ ~left.live /\ ~right.live
               /\ left.deletion_time # right.deletion_time) =>
              /\ cmp.lr # 0
              /\ (cmp.lr > 0) = UnsignedGreater(left.deletion_time, right.deletion_time)

\* Two deleted cells with equal timestamp were compared, and the one whose
\* deletion time is negative as a signed count won.
C12_Witness ==
    /\ cellpc = "compared"
    /\ SameTimestamp /\ ~left.live /\ ~right.live
    /\ left.deletion_time < 0 /\ right.deletion_time > 0
    /\ cmp.lr > 0

\* The case of C13: two live cells with equal timestamp and equal value that
\* both carry a TTL and differ in expiry have been compared.
ExpiryDecides ==
    /\ cellpc \in {"compared", "merged"}
    /\ SameTimestamp /\ left.live /\ right.live
    /\ left.value = right.value
    /\ left.has_ttl /\ right.has_ttl
    /\ left.expiry # right.expiry

\* C13, as claimed: of two such cells the one with the earlier expiry wins.
C13_Original ==
    ExpiryDecides => (cmp.lr > 0) = (left.expiry < right.expiry)

\* C13, amended: of two live cells with equal timestamp and equal value that
\* both carry a TTL and differ in expiry, the one with the later expiry wins.
C13_LaterExpiryWins ==
    ExpiryDecides =>
        /\ cmp.lr # 0 /\ cmp.rl = 0 - cmp.lr
        /\ (cmp.lr > 0) = (left.expiry > right.expiry)

\* Two such cells were compared and the one that expires later won.
C13_Witness ==
    /\ ExpiryDecides
    /\ left.expiry > right.expiry
    /\ cmp.lr > 0

\* C14: reconciliation is associative over all triples of cells, and
\* compare(a, b) is the negation of compare(b, a).
C14_ReconcileAssociative ==
    /\ cellpc \in {"compared", "merged"} => cmp.lr = 0 - cmp.rl
    /\ cellpc = "merged" => merged.l = merged.r

\* C16: when the sstable write of a regular memtable flush fails, the
\* memtable list and the sstable set stay as they are, no post callback runs
\* and the flush sleeps, after which nothing but a new write, of a new
\* generation, is tried; a flush has completed only if a write of its
\* memtable succeeded; and a flush whose write failed completes in the end
\* (unless the process aborts).
C16_FailedWriteIsRetried ==
    /\ [][\A k \in MemtableIds : WriteDone(k, FALSE) =>
             /\ k \in Range(memtables) /\ memtables' = memtables
             /\ CurrentSstables' = CurrentSstables
             /\ flushes[k].gen \notin CurrentSstables'
             /\ discards' = discards
             /\ flushes'[k].pc = "sleeping"]_vars
    /\ [](\A k \in MemtableIds : flushes[k].pc \in {"flushed", "done"} =>
             /\ sstData[flushes[k].gen] = mt[k].data
             /\ flushes[k].gen \in CurrentSstables)
    /\ [][\A k \in MemtableIds : flushes[k].pc = "sleeping" =>
             \/ flushes'[k].pc = "sleeping"
             \/ flushes'[k].pc = "writing" /\ flushes'[k].gen > flushes[k].gen]_vars
    /\ \A k \in MemtableIds :
          (flushes[k].pc = "sleeping") ~> (flushes[k].pc = "done" \/ crashed)

\* A write failed, the retry wrote a later generation, and the flush has
\* completed with its discard.
C16_Witness ==
    \E k \in MemtableIds :
        /\ flushes[k].pc = "done"
        /\ flushes[k].gen > 1
        /\ (flushes[k].gen - 1) \notin CurrentSstables
        /\ flushes[k].gen \in CurrentSstables
        /\ DiscardsFor(k) # {}

\* C17: when the cache update after a successful sstable write fails, the
\* sstable set keeps the new sstable, the sealed memtable leaves the list and
\* the work of the flush is done; the flush is not tried again (it keeps its
\* generation), and its post callback runs in the end and hands the
\* memtable's position to the commit log.
C17_CacheFailureStillCompletes ==
    /\ [][\A k \in MemtableIds : CacheDone(k, FALSE) =>
             /\ flushes'[k].pc = "flushed"
             /\ k \notin Range(memtables')
             /\ CurrentSstables' = CurrentSstables
             /\ flushes[k].gen \in CurrentSstables']_vars
    /\ [][\A k \in MemtableIds : flushes[k].cache_failed =>
             /\ flushes'[k].pc \in {"flushed", "done"}
             /\ flushes'[k].gen = flushes[k].gen]_vars
    /\ [](\A k \in MemtableIds : (flushes[k].cache_failed /\ flushes[k].pc = "done") =>
             DiscardsFor(k) # {})
    /\ \A k \in MemtableIds :
          flushes[k].cache_failed ~> (flushes[k].pc = "done" \/ crashed)

\* The cache update of a flush failed; its post callback has run, and its
\* sstable is in the set.
C17_Witness ==
    \E k \in MemtableIds :
        /\ flushes[k].cache_failed
        /\ flushes[k].pc = "done"
        /\ DiscardsFor(k) # {}
        /\ flushes[k].gen \in CurrentSstables
        /\ k \notin Range(memtables)

\* The callers of request_flush that have their outcome.
Resolved(c) == rcallers[c].pc \in {"ok", "failed"}

\* C11: request_flush is idempotent while a request is pending: the callers
\* that arrive before the permit is granted are served by the request of
\* the first of them, with one permit acquisition and one immediate seal,
\* and all of them, the first caller included, observe the same outcome.
C11_CallersShareOutcome ==
    \A c, d \in Callers :
        (rcallers[d].first = c /\ Resolved(c) /\ Resolved(d))
            => rcallers[d].pc = rcallers[c].pc

\* The entries of _streaming_memtables_big that exist.
LivePlans == {p \in Plans : streaming_memtables_big[p].state \in {"mapped", "erased"}}

\* The memtable lists of the column family: the memtables of each and which
\* of them have been sealed.
RegularList == [list |-> memtables,
                sealed |-> {k \in Range(memtables) : flushes[k].pc # "none"}]
StreamingList == [list |-> streaming_memtables,
                  sealed |-> {k \in Range(streaming_memtables) : sseal[k].pc # "none"}]
BigList(p) == [list |-> streaming_memtables_big[p].memtables,
               sealed |-> {k \in Range(streaming_memtables_big[p].memtables) :
                              sseal[k].pc # "none"}]

\* The list has exactly one memtable that is not sealed, and it is the last.
OneActiveLast(l) ==
    /\ l.list # <<>>
    /\ Range(l.list) \ l.sealed = {l.list[Len(l.list)]}

\* C15: every memtable list (regular, streaming, per-plan big) has exactly
\* one active memtable, the last element; a write changes only the memtable
\* that is the active one of its list, and a sealed memtable is never
\* written again. Seal, flush completion, flush failure, clear and truncate
\* preserve this.
C15_OneActiveMemtable ==
    /\ [](~crashed => /\ OneActiveLast(RegularList)
                      /\ OneActiveLast(StreamingList)
                      /\ \A p \in LivePlans : OneActiveLast(BigList(p)))
    /\ [][/\ \A k \in MemtableIds : mt'[k] # mt[k] =>
                  k = back /\ flushes[k].pc = "none" /\ flushes'[k].pc = "none"
          /\ \A k \in StreamIds : smt'[k].data # smt[k].data =>
                  /\ sseal[k].pc = "none" /\ sseal'[k].pc = "none"
                  /\ \/ k = sback'
                     \/ \E p \in Plans :
                            /\ streaming_memtables_big'[p].state = "mapped"
                            /\ k = bback(p)']_vars

\* The regular list holds a sealed memtable whose flush failed and a new
\* active one; the list of a plan has sealed a written memtable, whose flush
\* completed, and has a new active one.
C15_Witness ==
    /\ ~crashed
    /\ Len(memtables) = 2 /\ flushes[memtables[1]].pc = "sleeping"
    /\ \E p \in LivePlans : \E k \in StreamIds :
          /\ smt[k].plan = p /\ ~sempty(k) /\ sseal[k].pc = "written"
          /\ bback(p) # k

\* This step ends the sstable write of a sealed streaming memtable.
StreamFlushStep ==
    \E k \in StreamIds : sseal[k].pc = "writing" /\ sseal'[k].pc # "writing"

\* The entry of the cache for range R, if there is one, holds every streamed
\* mutation of M that falls in R and is in the sstable set.
NotStale(R, M) ==
    cache[R].present =>
        \A m \in M : (mrange[m] = R /\ m \in DataOf(CurrentSstables))
                          => m \in cache[R].data

\* C18: a streaming memtable flush never updates the row cache;
\* flush_streaming_mutations(plan_id, ranges) invalidates every range of
\* ranges before it completes, after the sstables of the streamed data were
\* added, so that from then on the cache holds no entry for a touched range
\* that predates the data streamed before the call.
C18_NoStaleCacheEntry ==
    /\ [][StreamFlushStep => cache' = cache]_vars
    /\ [][\A p \in Plans : (scalls[p].pc # "done" /\ scalls'[p].pc = "done")
              => \A R \in scalls[p].ranges : ~cache'[R].present]_vars
    /\ [](\A p \in Plans : scalls[p].pc = "done"
              => \A R \in scalls[p].ranges : NotStale(R, scalls[p].pre))

\* The sstables written by the seals of the big list of plan p.
BigWritten(p) ==
    {sseal[k].gen : k \in {j \in StreamIds : smt[j].plan = p /\ sseal[j].pc = "written"}}

\* The sstable set objects alive: the one _sstables points to and those
\* readers hold.
AliveSets == {o \in ObjIds : sstSets[o].used}

\* C19: the sstables of a plan's big seals are added to the sstable set
\* atomically at the end of the plan: none of them is in the set before
\* flush_streaming_big_mutations(plan_id) has opened them all, no reader
\* observes a set with some but not all of them, and when seal_sstable or
\* open_data of any of them fails none is added.
C19_BigSstablesAddedAtomically ==
    /\ [](\A p \in Plans, o \in AliveSets :
             /\ scalls[p].pc \in {"idle", "big_permit", "big_seal", "big_close", "big_open"}
                    => BigWritten(p) \cap sstSets[o].elems = {}
             /\ \/ BigWritten(p) \cap sstSets[o].elems = {}
                \/ BigWritten(p) \subseteq sstSets[o].elems)
    /\ [][\A p \in Plans :
              /\ (BigWritten(p) \cap CurrentSstables' # BigWritten(p) \cap CurrentSstables)
                     => /\ scalls[p].pc = "big_open" /\ ~scalls'[p].failed
                        /\ BigWritten(p) \subseteq CurrentSstables'
              /\ (scalls[p].pc = "big_open" /\ scalls'[p].failed)
                     => CurrentSstables' = CurrentSstables]_vars

\* The plan wrote two sstables with its big seals and ended: both are in the
\* set, while a reader still holds the set from before, with neither.
C19_Witness ==
    \E p \in Plans, r \in Readers :
        /\ Cardinality(BigWritten(p)) = 2
        /\ BigWritten(p) \subseteq CurrentSstables
        /\ readers[r].ref # 0 /\ readers[r].ref # sstables
        /\ BigWritten(p) \cap sstSets[readers[r].ref].elems = {}

\* What fail_streaming_mutations promises for plan p: the sstables of the
\* plan's big seals are marked for deletion and in no sstable set, no seal
\* of the plan is under way, and the plan's entry does not exist.
FailedPlanCleaned(p) ==
    /\ BigWritten(p) \subseteq marked
    /\ \A o \in AliveSets : BigWritten(p) \cap sstSets[o].elems = {}
    /\ \A k \in StreamIds : smt[k].plan = p => sseal[k].pc # "writing"
    /\ streaming_memtables_big[p].state \notin {"mapped", "erased"}

\* C20 as stated: after fail_streaming_mutations(plan_id) completes, every
\* sstable written by the plan's big seals, those under way included, is
\* marked for deletion, none is ever added to the sstable set, and the
\* plan's entry no longer exists.
C20_Original ==
    \A p \in Plans : fcalls[p] \in {"done", "noentry"} => FailedPlanCleaned(p)

\* C20: if the plan's entry is in the map when fail_streaming_mutations(
\* plan_id) is called, then after the call completes every sstable written
\* by the plan's big seals, those under way included, is marked for
\* deletion, none is ever added to the sstable set, and the plan's entry no
\* longer exists.
C20_FailedPlanLeavesNoSstable ==
    \A p \in Plans : fcalls[p] = "done" => FailedPlanCleaned(p)

\* The plan wrote two sstables with its big seals and was failed; the flush
\* of the plan called afterwards has completed too.
C20_Witness ==
    \E p \in Plans :
        /\ fcalls[p] = "done"
        /\ Cardinality(BigWritten(p)) = 2
        /\ scalls[p].pc = "done"

\* The generations whose status after the scan is st.
WithStatus(st) == {g \in PopGens : verifier[g] = st}

\* C21: after the directory scan of populate, a generation whose final
\* status is has_temporary_toc is removed as a partial sstable on shard 0
\* only, and ignored without error on the other shards; a generation whose
\* final status is neither has_toc nor has_temporary_toc makes populate
\* fail; the column family is marked ready for writes only when populate
\* succeeded.
C21_PopulatePostScan ==
    /\ removed_partial \subseteq WithStatus("has_temporary_toc_file")
    /\ shard # 0 => removed_partial = {}
    /\ (ppc = "done" /\ shard = 0)
           => removed_partial = WithStatus("has_temporary_toc_file")
    /\ (ppc \in {"done", "failed"} /\ ~scan_failed /\ WithStatus("has_some_file") = {})
           => ppc = "done"
    /\ (ppc \in {"done", "failed"} /\ WithStatus("has_some_file") # {})
           => ppc = "failed"
    /\ ready_for_writes <=> ppc = "done"

\* On shard 0 populate succeeded for a directory with a complete sstable
\* and a partial one, which was removed.
C21_Witness ==
    /\ shard = 0
    /\ ppc = "done" /\ ready_for_writes
    /\ WithStatus("has_toc_file") # {}
    /\ removed_partial # {}

\* The shards whose file names have been registered with the manager.
Registered == {s \in Shards : snap[s].pc \in {"registered", "done", "failed"}}

\* The calls of snapshot() that have completed.
Completed == {s \in Shards : snap[s].pc \in {"done", "failed"}}

\* The manifest is written at most once, by the nominated shard's request,
\* only after every shard has registered, and lists the files of all shards.
ManifestOnceAfterAll ==
    /\ Len(manifests) <= 1
    /\ (Len(manifests) = 1) <=> (sealpc = "written")
    /\ sealpc \in {"writing", "written", "failed"} =>
           /\ Registered = Shards
           /\ manifest_json = UNION {snap[s].files : s \in Shards}
    /\ Len(manifests) = 1 => manifests[1] = UNION {snap[s].files : s \in Shards}

InMemoryStep(w) == dbw[w].pc = "in_memory" /\ dbw'[w] # dbw[w]

\* C23 as stated: a write that fails with a replay-position reordering
\* error is appended to the commit log once more, and when that second
\* attempt fails in the same way the error goes to the caller.
C23_Original ==
    [][\A w \in DbWrites :
          (InMemoryStep(w) /\ in_memory_outcome(dbw[w].rp) = "reordered") =>
              IF dbw[w].appends = 1
              THEN dbw'[w].pc = "appending"
              ELSE dbw'[w].pc = "failed" /\ dbw'[w].error = "reordered"]_vars

\* C23: every attempt of a database write that fails with a
\* replay-position reordering error, the first as well as any later one,
\* is followed by another database::apply that appends the mutation to the
\* commit log again; the reordering error never reaches the caller.
C23_ReorderedWriteIsRetried ==
    [][\A w \in DbWrites :
          (InMemoryStep(w) /\ in_memory_outcome(dbw[w].rp) = "reordered") =>
              /\ dbw'[w].pc = "appending"
              /\ dbw'[w].error = "none"
              /\ dbw'[w].appends = dbw[w].appends]_vars

\* A write that was appended three times: two attempts were reordered.
C23_Witness == \E w \in DbWrites : dbw[w].appends = 3

\* C24 as stated: no write ends with an error because its column family
\* is not in the database.
C24_Original ==
    \A w \in DbWrites : dbw[w].error # "no_such_column_family"

\* C24: with the column family gone from the database, a write that
\* found it when database::apply was called and reaches the in-memory apply
\* is logged and completes without an error, a write issued by
\* database::apply fails with no_such_column_family, and neither changes a
\* memtable.
C24_AbsentColumnFamily ==
    [][\A w \in DbWrites :
          (~column_families /\ dbw'[w] # dbw[w]) =>
              /\ mt' = mt
              /\ dbw[w].pc = "in_memory" =>
                     /\ dbw'[w].pc = "done"
                     /\ dbw'[w].logged
                     /\ dbw'[w].error = "none"
              /\ dbw[w].pc = "idle" =>
                     /\ dbw'[w].pc = "failed"
                     /\ dbw'[w].error = "no_such_column_family"]_vars

\* A write that was appended to the commit log and then logged and dropped.
C24_Witness ==
    \E w \in DbWrites :
        dbw[w].pc = "done" /\ dbw[w].logged /\ dbw[w].appends = 1 /\ ~column_families

\* Flushes whose sstable was written and whose update_cache has not ended.
UpdatingCache == {k \in MemtableIds : flushes[k].pc = "cache"}

\* C25 as stated: no read has started with the sstable of a flush in the
\* set it reads from while the update_cache of that flush has not ended.
C25_Original ==
    \A r \in Readers, k \in UpdatingCache :
        readers[r].ref # 0 => flushes[k].gen \notin readers[r].seen

\* C25: the sstable of a flush is added to the sstable set before
\* update_cache is called, not after it: while update_cache has not ended
\* the sstable is in the set that reads start from and the sealed memtable
\* is still in the memtable list, and before the write has succeeded the
\* sstable is not in the set.
C25_SstableAddedBeforeCacheUpdate ==
    \A k \in MemtableIds :
        /\ k \in UpdatingCache =>
              /\ flushes[k].gen \in CurrentSstables
              /\ k \in Range(memtables)
        /\ flushes[k].pc \in {"writing", "sleeping"} =>
              flushes[k].gen \notin CurrentSstables

\* A read that started between add_sstable and the end of update_cache.
C25_Witness ==
    \E r \in Readers, k \in UpdatingCache :
        readers[r].ref # 0 /\ flushes[k].gen \in readers[r].seen

\* C26: the assertion of seal_active_memtable does not fail when every
\* write went through the validation of column_family::apply.
C26_SealAssertionHolds == ~crashed

\* C27: a write to a system table that arrives while the regular (user)
\* group is above its limit and the system group is not above its own runs
\* at once.
C27_SystemWritesAdmitted ==
    [][\A w \in Writes :
          (/\ WriteArrive(w, "system")
           /\ under_pressure(dirty, "regular")
           /\ ~under_pressure(dirty, "system")) => writes'[w].pc = "applied"]_vars

\* This step queues the flush of memtable k with run_cf_flush.
QueueStep(k) == flushes[k].pc = "none" /\ flushes'[k].pc # "none"

GatesDrained ==
    /\ InProgressSeals = {}
    /\ \A j \in Compactions : compactions[j].pc # "deleting"

\* Once close() was called on the flush queue, a flush attempt (the first
\* iteration of a new seal or an iteration after the sleep) fails without
\* starting an sstable write.
FailsAtClosedGate ==
    [][closed.flush_queue =>
          \A k \in MemtableIds :
              (flushes[k].pc \in {"none", "sleeping"} /\ flushes'[k].pc # flushes[k].pc)
                  => flushes'[k].pc = "failed" /\ generation' = generation]_vars

\* This step completes stop().
StopCompletes == stop_pc # "stopped" /\ stop_pc' = "stopped"

\* C29 as stated: when stop() completes the post callback of every flush
\* that was queued while the queue was open (it has started an sstable
\* write) has run and both gates have drained, and a flush attempt on the
\* closed queue fails at check_open_gate.
C29_Original ==
    /\ [][StopCompletes =>
              /\ \A k \in Sealed : flushes[k].gen # 0 => flushes[k].pc = "done"
              /\ GatesDrained]_vars
    /\ FailsAtClosedGate

\* C29: when stop() completes every queued flush has ended, with its
\* post callback run or failed at check_open_gate without one, and the
\* streaming-flush and sstable-deletion gates have drained; and a flush
\* attempt on the closed queue fails at check_open_gate instead of writing
\* an sstable.
C29_StopDrains ==
    /\ [][StopCompletes =>
              /\ \A k \in Sealed : flushes[k].pc \in {"done", "failed"}
              /\ GatesDrained]_vars
    /\ FailsAtClosedGate

\* stop() has completed, and the flush of a memtable whose sstable write had
\* failed before close() has failed at check_open_gate after its sleep.
C29_Witness ==
    /\ stop_pc = "stopped"
    /\ \E k \in MemtableIds : flushes[k].pc = "failed" /\ flushes[k].gen # 0

\* This step is the flusher's continuation with the permit in hand.
FlusherDecides == flusher_pc = "permit" /\ flusher_pc' # "permit"

\* The flusher seals the active memtable of the list in this step.
FlusherSeals(l) ==
    IF l = "regular" THEN memtables' # memtables
                     ELSE streaming_memtables' # streaming_memtables

\* The size of the largest region of the group.
MaxRegionSize == Max({region_size(reg) : reg \in Regions})

\* List l owns a region that no region of the group is larger than.
OwnsLargest(l) ==
    \E reg \in Regions : reg[1] = l /\ region_size(reg) = MaxRegionSize

\* C30: the memory-driven flusher seals a memtable only if, when it has
\* the permit, no explicit flusher waits for the permit, the group is over
\* its soft limit and shutdown has not been requested; otherwise it lets the
\* permit go and seals nothing. The list whose active memtable it seals owns
\* a region that no region of the group is larger than, and when it may
\* flush and seals nothing, the active memtable of such a list is empty.
C30_ReactiveFlusherGivesWay ==
    [][FlusherDecides =>
          LET may == /\ Len(permitWaiters) = 1
                     /\ over_soft_limit
                     /\ ~db_shutdown_requested
              sealsNone == ~FlusherSeals("regular") /\ ~FlusherSeals("streaming")
          IN  /\ \A l \in {"regular", "streaming"} :
                    FlusherSeals(l) => may /\ OwnsLargest(l)
              /\ ~may => permit' = 0 /\ sealsNone
              /\ (may /\ sealsNone) =>
                    \/ OwnsLargest("regular") /\ empty(back)
                    \/ OwnsLargest("streaming") /\ sempty(sback)]_vars

\* The flusher has sealed the streaming memtable, which held more than any
\* memtable of the regular list, and the permit is with its region.
C30_Witness ==
    /\ permit < 0
    /\ \A k \in Range(memtables) :
           Cardinality(mt[k].data) < Cardinality(smt[0 - permit].data)

\* C31: shutdown() of the dirty memory manager completes only after every
\* flush started through flush_one that was in flight when shutdown was
\* called has completed, and once shutdown has been requested the reactive
\* loop starts no flush: with the permit in hand it seals the active
\* memtable of neither list.
C31_ShutdownDrains ==
    /\ [](shutdown_done => inflight_at_shutdown \cap flush_one_in_flight = {})
    /\ [][(db_shutdown_requested /\ FlusherDecides) =>
             /\ ~FlusherSeals("regular") /\ ~FlusherSeals("streaming")
             /\ flush_one_in_flight' = flush_one_in_flight]_vars

\* shutdown() has completed and had flushes to wait for.
C31_Witness == shutdown_done /\ inflight_at_shutdown # {}

\* The components of generation g in the directory.
ComponentsOf(g) == {c \in Components : <<g, c>> \in dir}

\* The status of generation g after a scan that probes its TemporaryTOC
\* before its TOC.
StatusOfDirectory(g) ==
    IF "TOC" \in ComponentsOf(g) THEN "has_toc_file"
    ELSE IF "TemporaryTOC" \in ComponentsOf(g) THEN "has_temporary_toc_file"
    ELSE IF ComponentsOf(g) \ {"TemporaryStatistics"} # {} THEN "has_some_file"
    ELSE "none"

\* C32: the status of a generation after the directory scan of populate
\* does not depend on the order in which the entries of the generation were
\* processed: when every entry has been probed no probe has thrown, the
\* generation has status has_toc_file exactly if its TOC is in the
\* directory, has_temporary_toc_file if only its TemporaryTOC is, and any
\* other component has left the status alone.
C32_StatusIndependentOfOrder ==
    (ppc = "scan" /\ unprobed = {}) =>
        /\ ~scan_failed
        /\ \A g \in PopGens : verifier[g] = StatusOfDirectory(g)

\* Candidate i holds a row in one of the requested clustering ranges.
HoldsRequestedRow(i) ==
    \E row \in candidates[i].rows : \E j \in 1..Len(slice) : in_range(row.ck, slice[j])

\* C33: for a single-key read with clustering filtering and a request that
\* is not one full range, filter_sstable_for_reader returns every
\* bloom-positive candidate sstable that overlaps a requested clustering
\* range: a candidate that holds a row of a requested range is among the
\* sstables returned.
C33_OverlappingSstablesSurvive ==
    (filter_pc = "filtered" /\ ~(Len(slice) = 1 /\ is_full(slice[1]))) =>
        \A i \in 1..Len(candidates) :
            (candidates[i].filter_has_key /\ HoldsRequestedRow(i)) => i \in surviving

CompactionCompletes(j) == compactions[j].pc = "running" /\ compactions'[j].pc = "deleting"

\* C35: rebuild_sstable_list(new, removed) publishes in one step the set
\* (current set at completion + new) - removed: the sstables of the current
\* set that are not named in removed, those that flushes added while the
\* compaction ran among them, stay in the set, at most the sstable the
\* compaction wrote joins them, and every removed sstable leaves the set
\* and is in the compacted-but-not-deleted list after the same step, which
\* loses none of its sstables.
C35_RebuildPublishesAtomically ==
    [][\A j \in Compactions : CompactionCompletes(j) =>
          LET removed == compactions[j].input
              new     == CurrentSstables' \ CurrentSstables
          IN  /\ CurrentSstables' = (CurrentSstables \cup new) \ removed
              /\ CurrentSstables \ removed \subseteq CurrentSstables'
              /\ new \subseteq {generation'} /\ new \cap Generations \subseteq {generation + 1}
              /\ removed \subseteq compacted_but_not_deleted'
              /\ removed \cap CurrentSstables' = {}
              /\ compacted_but_not_deleted \subseteq compacted_but_not_deleted'
              /\ compacted_but_not_deleted' \subseteq compacted_but_not_deleted \cup removed]_vars

\* A compaction has completed and its sstables wait for their delete,
\* while the set holds the sstable the compaction wrote and a younger one.
C35_Witness ==
    \E j \in Compactions :
        /\ compactions[j].pc = "deleting"
        /\ compactions[j].input \subseteq compacted_but_not_deleted
        /\ compactions[j].input \cap CurrentSstables = {}
        /\ \E g, h \in CurrentSstables :
              /\ g < h
              /\ \A i \in compactions[j].input : i < g

\* seal_active_streaming_memtable_immediate is called in this step: by the
\* timer, which is armed before and not after, or by a flusher, which seals
\* the active memtable of the shared list.
ImmediateSealCalled ==
    \/ delayed_streaming_flush /\ ~delayed_streaming_flush'
    \/ streaming_memtables' # streaming_memtables /\ memtables' = memtables

\* Plan p calls seal_active_streaming_memtable_delayed in this step.
DelayedSealCalled(p) == scalls[p].pc = "idle" /\ scalls'[p].pc \in {"delayed", "phaser"}

\* C36: a delayed seal of the shared streaming list returns at once and
\* leaves the timer alone when the active streaming memtable is empty;
\* otherwise it waits with the timer armed. The callers of delayed seals
\* since the last immediate seal are completed by the next immediate seal:
\* when seal_active_streaming_memtable_immediate is called none of them is
\* left waiting and the timer is not armed, and they get the outcome of
\* the write of that seal.
C36_DelayedSealersCompletedByNextSeal ==
    /\ [][\A p \in Plans : DelayedSealCalled(p) =>
             IF sempty(sback)
             THEN /\ scalls'[p].pc = "phaser"
                  /\ delayed_streaming_flush' = delayed_streaming_flush
             ELSE /\ scalls'[p].pc = "delayed"
                  /\ p \in waiting_streaming_flushes'
                  /\ delayed_streaming_flush']_vars
    /\ [][ImmediateSealCalled =>
             /\ waiting_streaming_flushes' = {}
             /\ ~delayed_streaming_flush'
             /\ \A p \in waiting_streaming_flushes :
                   \E k \in StreamIds : sseal'[k].pc = "writing" /\ p \in sseal'[k].waiters]_vars
    /\ [][\A k \in StreamIds, p \in Plans :
             (sseal[k].pc = "writing" /\ sseal'[k].pc # "writing" /\ p \in sseal[k].waiters)
                 => /\ scalls[p].pc = "delayed" /\ scalls'[p].pc = "phaser"
                    /\ scalls'[p].failed = (sseal'[k].pc = "failed")]_vars


\* What make_reader of the column family can return: the memtables of
\* _memtables and the sstable set, directly or through the row cache. The
\* streaming memtables are not among its sources.
VisibleToReader ==
    Readable(memtables, CurrentSstables) \cup UNION {cache[R].data : R \in Ranges}

\* C37: a failed write of a sealed memtable of the shared streaming list is
\* not tried again: the memtable has left _streaming_memtables when the write
\* starts, the failed seal stays failed and its generation names no sstable
\* of the set, every waiter of the seal gets the error and its
\* flush_streaming_mutations stays failed; a streamed mutation is visible to
\* make_reader only once the sstable of its memtable has been added.
C37_FailedStreamingWriteNotRetried ==
    /\ [](\A k \in StreamIds : smt[k].plan = 0 =>
             /\ sseal[k].pc \in {"writing", "written", "failed"}
                    => k \notin Range(streaming_memtables)
             /\ sseal[k].pc = "failed"
                    => /\ sseal[k].gen \notin CurrentSstables
                       /\ sstData[sseal[k].gen] = {}
             /\ \A m \in smt[k].data :
                    m \in VisibleToReader => sseal[k].pc = "written")
    /\ [][\A k \in StreamIds : (smt[k].plan = 0 /\ sseal[k].pc = "failed")
             => sseal'[k] = sseal[k] /\ smt'[k] = smt[k]]_vars
    /\ [][\A k \in StreamIds, p \in Plans :
             (smt[k].plan = 0 /\ sseal[k].pc = "writing" /\ sseal'[k].pc = "failed"
              /\ p \in sseal[k].waiters) => scalls'[p].failed]_vars
    /\ [][\A p \in Plans :
             (scalls[p].failed /\ scalls[p].pc \in {"phaser", "done"})
                 => scalls'[p].failed]_vars

\* A write of a sealed memtable of the shared streaming list has failed and
\* a flush_streaming_mutations that waited for it, of a plan with no
\* streaming_memtable_big, has finished with the error.
C37_Witness ==
    \E k \in StreamIds, p \in Plans :
        /\ smt[k].plan = 0 /\ sseal[k].pc = "failed" /\ smt[k].data # {}
        /\ streaming_memtables_big[p].state = "none"
        /\ scalls[p].pc = "done" /\ scalls[p].failed


\* A range does not wrap: its start is below its end when it has both.
non_wrapping(r) == r.start = <<>> \/ r.end = <<>> \/ r.start[1] < r.end[1]

\* The ranges of v are in token order: each ends where the next starts or
\* before.
ranges_sorted(v) ==
    \A i \in 1..(Len(v) - 1) :
        /\ v[i].end # <<>> /\ v[i + 1].start # <<>>
        /\ v[i].end[1] <= v[i + 1].start[1]

\* C38: the vector get_ranges(ep) or get_primary_ranges(ep) returns for a
\* ring of one or more tokens holds non-wrapping ranges in token order, one
\* per token taken, the range that wraps around being split into
\* (-inf, first_token] and (last_token, +inf).
C38_RangesUnwrappedAndSorted ==
    ranges_call.pc = "done" =>
        LET first == sorted_tokens[1]
            last == sorted_tokens[Len(sorted_tokens)]
        IN  /\ \A i \in DOMAIN ret : non_wrapping(ret[i])
            /\ first \in ranges_call.owned =>
                   /\ token_range(<<>>, <<first>>) \in Range(ret)
                   /\ token_range(<<last>>, <<>>) \in Range(ret)
            /\ \A i \in 2..Len(sorted_tokens) :
                   sorted_tokens[i] \in ranges_call.owned =>
                       token_range(<<sorted_tokens[i - 1]>>, <<sorted_tokens[i]>>)
                           \in Range(ret)
            /\ ranges_sorted(ret)

\* The vector returned is in token order whenever the endpoint does not
\* take the first token of the ring together with another one.
RangesSortedUnlessFirstAndAnother ==
    (ranges_call.pc = "done" /\ ~ranges_sorted(ret))
        => /\ sorted_tokens[1] \in ranges_call.owned
           /\ Cardinality(ranges_call.owned) > 1


\* Nothing more happens in the transfer task: it has called the session
\* back and every STREAM_MUTATION has been answered, or the process crashed.
TaskOver ==
    \/ transfer.crashed
    \/ transfer.pc \in {"completed", "error"} /\ \A s \in TShards : inflight[s] = 0

\* C39: STREAM_MUTATION_DONE is sent only when every STREAM_MUTATION of
\* every shard has been acknowledged; the task calls exactly one of
\* transfer_task_completed and on_error, on_error when a send or the DONE
\* message failed; and every unit taken from the mutation send limiter has
\* been returned when the sends have been answered, failed or not.
C39_TransferTaskCallsBackOnce ==
    /\ [][(transfer.pc # "done_sent" /\ transfer'.pc = "done_sent") =>
             \A s \in TShards : /\ inflight[s] = 0
                                /\ send_infos[s].done = send_infos[s].mutations_nr]_vars
    /\ [](transfer.completed + transfer.on_error <= 1)
    /\ [](TaskOver =>
             /\ transfer.completed + transfer.on_error = 1
             /\ (transfer.send_failed \/ transfer.done_failed) => transfer.on_error = 1
             /\ \A s \in TShards : limiter[s] = MaxInFlight)


\* Every shard has called snapshot() for the tag.
AllShardsCalled == \A s \in Shards : snap[s].pc # "idle"

\* C40: once every shard has called snapshot() for the tag, the call of
\* every shard completes in the end, with success or with an error, also
\* when links or the manifest could not be written, and the entry of
\* pending_snapshots is gone.
C40_SnapshotCallsComplete ==
    AllShardsCalled ~>
        (/\ \A s \in Shards : snap[s].pc \in {"done", "failed"}
         /\ ~pending_snapshots.exists)

\* The same when seal_snapshot does not fail: failed links do not keep any
\* shard waiting.
SnapshotCallsCompleteWhenSealed ==
    AllShardsCalled ~>
        (\/ sealpc = "failed"
         \/ /\ \A s \in Shards : snap[s].pc \in {"done", "failed"}
            /\ ~pending_snapshots.exists)

====
